---- MODULE Spec2Model ----
(***************************************************************************)
(* A model of the supernet WebAssembly bridge (packages httpjs, streamjs   *)
(* and wsjs): blocking Go workers on one side, the single-threaded host    *)
(* event loop on the other.  Four components are modelled, each with its   *)
(* own specification over its own variables:                               *)
(*                                                                         *)
(*   ReaderSpec    Request.Do and jsStreamReader, the push-to-pull reader  *)
(*                 of the host stream a response's body is                 *)
(*   WsSpec        wsjs.Conn, the socket connection and its event          *)
(*                 handlers, and WsStream, the byte stream over it         *)
(*   ProducerSpec  streamjs.ReadableStream, the pull-to-push producer,     *)
(*                 over any io.ReadCloser                                  *)
(*   AdaptersSpec  one adapter of any of these three kinds                 *)
(*   Spec          ServeHTTPAsyncWithStreaming with                        *)
(*                 streamingResponseWriter, the io.Pipe between them and   *)
(*                 the ReadableStream the host pulls the body from         *)
(*                                                                         *)
(* A goroutine is modelled by a program counter; a step of a goroutine is  *)
(* the code between two points where it can block or where another worker  *)
(* can observe shared memory.  A host callback runs to completion as one   *)
(* step unless it blocks on a channel.                                     *)
(***************************************************************************)
EXTENDS Integers, Sequences, FiniteSets, TLC

\* ------------------------------------------------------------------ bounds
MaxChunks   == 2   \* host chunks a stream delivers
MaxChunkLen == 2   \* bytes in one host chunk
MaxBuf      == 2   \* length of a caller's buffer p
MaxReads    == 4   \* host reads one reader issues
MaxCloses   == 2   \* calls of Close on one adapter
MaxCallers  == 2   \* workers that call Read, and that call Write, at once
MaxWriteBuf == 1   \* length of the buffer of a Write
MaxRaReads  == 3   \* calls of Read one ReadAll makes
MaxReadN    == 2   \* bytes one Read of a body reader returns
MaxCtLen    == 3   \* characters in a content-type argument

\* ------------------------------------------------------------------ helpers
Min(a, b) == IF a < b THEN a ELSE b

RECURSIVE Sum(_, _)
Sum(f, k) == IF k = 0 THEN 0 ELSE f[k] + Sum(f, k - 1)

RECURSIVE Concat(_)
Concat(ss) == IF ss = <<>> THEN <<>> ELSE Head(ss) \o Concat(Tail(ss))

IsPrefix(s, t) == Len(s) <= Len(t) /\ SubSeq(t, 1, Len(s)) = s

Take(s, n) == SubSeq(s, 1, n)
Drop(s, n) == SubSeq(s, n + 1, Len(s))

\* The io.EOF sentinel and the nil error.
EOF == "EOF"
Nil == "nil"

VARIABLES
    \* ---- push-to-pull reader (httpjs.jsStreamReader) and its host stream
    hostChunks,     \* chunks the host stream has still to deliver
    hostErrored,    \* the host stream has failed: its read promises reject
    hostCancels,    \* number of jsReader.cancel() calls the host has seen
    hostReads,      \* number of jsReader.read() calls the host has seen
    readPromise,    \* "none" | "pending" | "rejected": the promise of read()
    rd_closed,      \* jsStreamReader.closed
    rd_pc,          \* "idle" | "blocked": the caller of Read, at <-resultCh
    rd_p,           \* len(p) of the Read in progress
    resultCh,       \* the channel of capacity 1 made by Read
    rd_funcs,       \* js.Func handles made by Read and not yet released
    rd_out,         \* every byte Read has returned to its caller, in order
    rd_ret,         \* what the last Read returned: [n, err], or <<>> for none
    hostAll,        \* every byte the host stream holds, in order
    rd_closeCalls,  \* calls of jsStreamReader.Close
    \* ---- Request.Do, which makes the reader
    do_pc,          \* "none" | "blocked" (at the select) | "returned"
    fetchPromise,   \* "none" | "pending" | "fulfilled" | "rejected"
    do_funcs,       \* of thenFunc and catchFunc, those not released
    do_ch,          \* what a continuation sent on resultCh or errCh
    do_ret          \* <<>>, or what Do returned: [ok, body, err]

doVars == <<do_pc, fetchPromise, do_funcs, do_ch, do_ret>>

readerVars == <<hostChunks, hostErrored, hostCancels, hostReads, readPromise,
                rd_closed, rd_pc, rd_p, resultCh, rd_funcs, rd_out, rd_ret,
                hostAll, rd_closeCalls, doVars>>

VARIABLES
    ws_ready,       \* the host socket: "none" | "connecting" | "open" |
                    \*   "closing" | "closed"
    ws_errored,     \* the host has fired the error event
    errCh,          \* Dial's errCh, capacity 1
    dial_pc,        \* "none" | "blocked" (at <-errCh) | "woken" | "returned"
    dial_err,       \* the value Dial received from errCh
    dial_ret,       \* <<>>, or what Dial returned: [conn, err]
    messageChan,    \* conn.messageChan: the queued messages, oldest first
    closeChan,      \* conn.closeChan: "open" | "closed"
    ws_released,    \* how many times freeFuncs has released the four handlers
    hostBlocked,    \* "none", or the handler blocked in a channel send
    blockedVal,     \* the value that handler is sending
    msgSeq,         \* message events fired so far; message k is number k
    nm_ret,         \* <<>>, or what the last NextMessage returned
    nm_count,       \* messages NextMessage has returned
    close_pc,       \* Conn.Close: "idle" | "blocked" (at <-closeChan)
    peerLens,       \* the payload length of each message the peer sends
    currentBuffer,  \* WsStream.currentBuffer
    ws_out,         \* every byte WsStream.Read has returned, in order
    ws_wrapped,     \* the connection is used through a WsStream
    ws_readers,     \* callers of WsStream.Read that are past readMu.Lock()
    ws_writers,     \* callers of WsStream.Write that are past writeMu.Lock()
    ws_wret         \* <<>>, or the last Write: [n, err, p, frame], frame
                    \*   the payloads the host transmitted for it

wsVars == <<ws_ready, ws_errored, errCh, dial_pc, dial_err, dial_ret,
            messageChan, closeChan, ws_released, hostBlocked, blockedVal,
            msgSeq, nm_ret, nm_count, close_pc, peerLens, currentBuffer,
            ws_out, ws_wrapped, ws_readers, ws_writers, ws_wret>>

streamVars == <<ws_readers, ws_writers, ws_wret>>

VARIABLES
    sv_pc,          \* the responder worker: "start" | "waitHeader" |
                    \*   "headers" | "resolve" | "done"
    promise,        \* the promise handed to the host: [state, status, headers]
    httpResp,       \* the http.Response being built: [status]
    jsHeaders,      \* the host header object HTTPResponseToJSResponse fills
    hd_pc,          \* the handler worker: "none" | "run" | "write" |
                    \*   "httpError" | "errWrite" | "errClose" | "done"
    hd_ops,         \* ResponseWriter calls the handler has made
    hd_wret,        \* <<>>, or what the last Write returned: [n, err]
    wroteHeader,    \* streamingResponseWriter.wroteHeader
    statusCode,     \* streamingResponseWriter.statusCode
    header,         \* streamingResponseWriter.header: key -> value
    wroteHeaderChan,\* "open" | "closed"
    pipe_buf,       \* io.Pipe: bytes of the Write in progress not yet read
    pipe_n,         \* io.Pipe: bytes of the Write in progress already read
    pipe_werr,      \* io.Pipe: the write side's close error, or Nil
    pipe_rerr,      \* io.Pipe: the read side's close error, or Nil
    st_state,       \* the host stream: "none" | "readable" | "closed" |
                    \*   "errored" | "cancelled"
    st_chunks,      \* the chunks enqueued on the stream's controller
    pull_pc,        \* a pull: "none" | "reading" (in rs.r.Read)
    pullPromise,    \* how the last pull promise settled: "none" | "pending" |
                    \*   "resolved" | "rejected"
    rs_closes,      \* calls of rs.r.Close() through closeOnce
    \* history, read by the properties only
    hs_commits,     \* HeadersPending -> HeadersSent transitions so far
    hs_commit,      \* <<>>, or the commit: [status, header, kind]
    hs_fault,       \* "no", or the handler faulted "before" | "after" commit
    hs_forced,      \* the handler returned without committing headers
    hs_written,     \* every byte handed to Write, in order
    hs_lastPull,    \* how the last finished pull ended: "none" | "data" |
                    \*   "eof" | "error"
    hs_atResolve,   \* bytes handed to Write when the promise resolved, or -1
    rq_body,        \* the inbound request's body promise: "none" (the
                    \*   request has no body) | "pending" | "fulfilled" |
                    \*   "rejected"
    rq_malformed    \* http.NewRequest or ReadMIMEHeader fails on the request

serveVars == <<sv_pc, promise, httpResp, jsHeaders, hd_pc, hd_ops, hd_wret,
               wroteHeader, statusCode, header, wroteHeaderChan, pipe_buf,
               pipe_n, pipe_werr, pipe_rerr, st_state, st_chunks, pull_pc,
               pullPromise, rs_closes, hs_commits, hs_commit, hs_fault,
               hs_forced, hs_written, hs_lastPull, hs_atResolve, rq_body,
               rq_malformed>>

VARIABLES
    \* ---- pull-to-push producer (streamjs.ReadableStream) over any reader
    ps_total,       \* bytes the underlying reader yields before io.EOF
    ps_off,         \* bytes the underlying reader has yielded so far
    ps_rcloses,     \* calls of rs.r.Close()
    ps_state,       \* the host stream: "none" | "readable" | "closed" |
                    \*   "errored" | "cancelled"
    ps_chunks,      \* the chunks enqueued: [off, len], off the bytes before
    ps_reading,     \* pull workers inside rs.r.Read(rs.buffer)
    ps_promise,     \* the last pull promise: "none" | "pending" |
                    \*   "resolved" | "rejected"
    ps_pulls,       \* calls of pull by the host
    ps_reads,       \* calls of rs.r.Read
    ps_funcs,       \* of onStart, onPull, onCancel, those not released
    ps_execs,       \* promiseFn executors not released
    ps_relCalls,    \* times the handles of funcsToBeReleased were released
    ps_closeCalls,  \* calls of ReadableStream.Close by the owner
    ps_cancels,     \* calls of cancel by the host
    ps_crashed      \* a worker panicked: the program is gone

producerVars == <<ps_total, ps_off, ps_rcloses, ps_state, ps_chunks,
                  ps_reading, ps_promise, ps_pulls, ps_reads, ps_funcs,
                  ps_execs, ps_relCalls, ps_closeCalls, ps_cancels,
                  ps_crashed>>

VARIABLES
    \* ---- Response.ReadAll over the response's body reader
    ra_hasBody,     \* resp.bodyReader is not nil
    ra_pc,          \* "none" | "loop" (ReadAll called) | "done"
    ra_buf,         \* buf: the bytes written to it
    ra_reads,       \* calls of bodyReader.Read made
    ra_plen,        \* len(buffer) of the last of them, or 0
    ra_last,        \* <<>>, or what it returned: [data, err], data the
                    \*   bytes buffer[:n]
    ra_delivered,   \* every byte the reader has returned, in order
    ra_ret          \* <<>>, or what ReadAll returned: [data, isNil, err]

raVars == <<ra_hasBody, ra_pc, ra_buf, ra_reads, ra_plen, ra_last,
            ra_delivered, ra_ret>>

VARIABLES
    \* ---- Post and Put: the request they build and what Do hands to fetch
    ob_pc,          \* "none" | "call" (Post or Put called) | "built" (the
                    \*   Request is made) | "sent" (Do has made the options)
    ob_in,          \* the arguments: [method, ct, body]
    ob_req,         \* <<>>, or the Request: [Method, Headers, Body]
    ob_opts         \* <<>>, or the fetch options: [method, headers, body],
                    \*   headers and body <<>> when the option is not set

obVars == <<ob_pc, ob_in, ob_req, ob_opts>>

vars == <<readerVars, wsVars, serveVars, producerVars, raVars, obVars>>

\* ---------------------------------------------------------------- reader
\* The host stream's content: bytes 1, 2, 3, ... cut into chunks of the
\* sizes sz[1], sz[2], ...; a size of 0 is an empty chunk.
ChunksOf(sz) ==
    [i \in DOMAIN sz |-> [j \in 1..sz[i] |-> Sum(sz, i - 1) + j]]

ChunkSizes == UNION {[1..k -> 0..MaxChunkLen] : k \in 0..MaxChunks}

ReaderIdle ==
    /\ hostErrored = FALSE
    /\ hostCancels = 0
    /\ hostReads = 0
    /\ readPromise = "none"
    /\ rd_closed = FALSE
    /\ rd_pc = "idle"
    /\ rd_p = 0
    /\ resultCh = <<>>
    /\ rd_funcs = 0
    /\ rd_out = <<>>
    /\ rd_ret = <<>>
    /\ rd_closeCalls = 0

ErrRequestFailed == "request failed"

\* Do up to its select: fetch was called and thenFunc and catchFunc are
\* attached to its promise.  The body of the response the host will give
\* is the host stream.
ReaderInit ==
    /\ \E sz \in ChunkSizes :
          /\ hostChunks = ChunksOf(sz)
          /\ hostAll = Concat(ChunksOf(sz))
    /\ ReaderIdle
    /\ do_pc = "blocked"
    /\ fetchPromise = "pending"
    /\ do_funcs = {"thenFunc", "catchFunc"}
    /\ do_ch = <<>>
    /\ do_ret = <<>>

\* The host fulfils the fetch promise and runs thenFunc, which releases
\* itself, wraps a body that is not null in a jsStreamReader and sends the
\* response on resultCh.  catchFunc is not called.
FetchThen ==
    /\ fetchPromise = "pending"
    /\ fetchPromise' = "fulfilled"
    /\ do_funcs' = do_funcs \ {"thenFunc"}
    /\ \E body \in IF hostChunks = <<>> THEN BOOLEAN ELSE {TRUE} :
          do_ch' = <<[ok |-> TRUE, body |-> body, err |-> Nil]>>
    /\ UNCHANGED <<do_pc, do_ret>>
    /\ UNCHANGED <<hostChunks, hostErrored, hostCancels, hostReads,
                   readPromise, rd_closed, rd_pc, rd_p, resultCh, rd_funcs,
                   rd_out, rd_ret, hostAll, rd_closeCalls>>
    /\ UNCHANGED <<wsVars, serveVars, producerVars, raVars, obVars>>

\* A failure continuation that hands over a response as well.
CatchResultBoth == [ok |-> TRUE, body |-> FALSE, err |-> ErrRequestFailed]

\* What catchFunc sends on errCh, and Do returns as nil, err.
CatchResult == [ok |-> FALSE, body |-> FALSE, err |-> ErrRequestFailed]

\* The host rejects the fetch promise: thenFunc is skipped and catchFunc
\* runs, releases itself and sends the error on errCh.
FetchCatch ==
    /\ fetchPromise = "pending"
    /\ fetchPromise' = "rejected"
    /\ do_funcs' = do_funcs \ {"catchFunc"}
    /\ do_ch' = <<CatchResult>>
    /\ UNCHANGED <<do_pc, do_ret>>
    /\ UNCHANGED <<hostChunks, hostErrored, hostCancels, hostReads,
                   readPromise, rd_closed, rd_pc, rd_p, resultCh, rd_funcs,
                   rd_out, rd_ret, hostAll, rd_closeCalls>>
    /\ UNCHANGED <<wsVars, serveVars, producerVars, raVars, obVars>>

\* The select of Do receives and Do returns.
DoReturn ==
    /\ do_pc = "blocked"
    /\ do_ch # <<>>
    /\ do_ret' = Head(do_ch)
    /\ do_ch' = <<>>
    /\ do_pc' = "returned"
    /\ UNCHANGED <<fetchPromise, do_funcs>>
    /\ UNCHANGED <<hostChunks, hostErrored, hostCancels, hostReads,
                   readPromise, rd_closed, rd_pc, rd_p, resultCh, rd_funcs,
                   rd_out, rd_ret, hostAll, rd_closeCalls>>
    /\ UNCHANGED <<wsVars, serveVars, producerVars, raVars, obVars>>

\* Do returned a response with a body: resp.bodyReader is a jsStreamReader.
HasReader == do_pc = "returned" /\ do_ret.ok /\ do_ret.body

\* A closed reader that reports no end of data.
ClosedReadResultNil == [n |-> 0, err |-> Nil]

\* if r.closed { return 0, io.EOF } at the head of Read.
ClosedReadResult == [n |-> 0, err |-> EOF]

\* Read on a closed reader: 0, io.EOF, and no host read.
ReadClosed(len) ==
    /\ HasReader
    /\ rd_pc = "idle"
    /\ rd_closed
    /\ len \in 1..MaxBuf
    /\ rd_ret' = ClosedReadResult
    /\ UNCHANGED <<hostChunks, hostErrored, hostCancels, hostReads,
                   readPromise, rd_closed, rd_pc, rd_p, resultCh, rd_funcs,
                   rd_out, hostAll>>
    /\ UNCHANGED <<rd_closeCalls, doVars>>
    /\ UNCHANGED <<wsVars, serveVars, producerVars, raVars, obVars>>

\* Read up to the receive from resultCh: one host read() is issued and
\* thenFunc is attached to its promise.
ReadCall(len) ==
    /\ HasReader
    /\ rd_pc = "idle"
    /\ ~rd_closed
    /\ readPromise = "none"
    /\ hostReads < MaxReads
    /\ rd_p' = len
    /\ resultCh' = <<>>
    /\ hostReads' = hostReads + 1
    /\ readPromise' = "pending"
    /\ rd_funcs' = rd_funcs + 1
    /\ rd_pc' = "blocked"
    /\ UNCHANGED <<hostChunks, hostErrored, hostCancels, rd_closed, rd_out,
                   rd_ret, hostAll>>
    /\ UNCHANGED <<rd_closeCalls, doVars>>
    /\ UNCHANGED <<wsVars, serveVars, producerVars, raVars, obVars>>

\* A continuation that takes an empty chunk for the end of the stream.
ThenResultEmptyEnds(done, chunk, len) ==
    IF done \/ Len(chunk) = 0 THEN [data |-> <<>>, err |-> EOF]
    ELSE [data |-> Take(chunk, Min(Len(chunk), len)), err |-> Nil]

\* What thenFunc sends on resultCh for a host result {done, value}: the
\* bytes copied into p and the error.  A chunk longer than p is cut to
\* len(p) by the temporary view; nothing keeps the rest.
ThenResult(done, chunk, len) ==
    IF done THEN [data |-> <<>>, err |-> EOF]
    ELSE IF Len(chunk) = 0 THEN [data |-> <<>>, err |-> Nil]
    ELSE [data |-> Take(chunk, Min(Len(chunk), len)), err |-> Nil]

\* The host fulfils the read promise and runs thenFunc: the next chunk, or
\* done once the stream is drained or was cancelled.
ReadThen ==
    /\ readPromise = "pending"
    /\ ~hostErrored
    /\ LET done == hostChunks = <<>>
           chunk == IF done THEN <<>> ELSE Head(hostChunks)
       IN  /\ resultCh' = Append(resultCh, ThenResult(done, chunk, rd_p))
           /\ hostChunks' = IF done THEN hostChunks ELSE Tail(hostChunks)
    /\ readPromise' = "none"
    /\ rd_funcs' = rd_funcs - 1
    /\ UNCHANGED <<hostErrored, hostCancels, hostReads, rd_closed, rd_pc,
                   rd_p, rd_out, rd_ret, hostAll>>
    /\ UNCHANGED <<rd_closeCalls, doVars>>
    /\ UNCHANGED <<wsVars, serveVars, producerVars, raVars, obVars>>

\* The host stream fails: the pending read promise is rejected.  Read
\* attached a fulfilment continuation only, so nothing runs.
ReadReject ==
    /\ readPromise = "pending"
    /\ hostChunks # <<>>
    /\ hostErrored' = TRUE
    /\ readPromise' = "rejected"
    /\ UNCHANGED <<hostChunks, hostCancels, hostReads, rd_closed, rd_pc,
                   rd_p, resultCh, rd_funcs, rd_out, rd_ret, hostAll>>
    /\ UNCHANGED <<rd_closeCalls, doVars>>
    /\ UNCHANGED <<wsVars, serveVars, producerVars, raVars, obVars>>

\* Read from the receive on: res := <-resultCh; return res.n, res.err.
ReadReturn ==
    /\ rd_pc = "blocked"
    /\ resultCh # <<>>
    /\ LET res == Head(resultCh)
       IN  /\ rd_out' = rd_out \o res.data
           /\ rd_ret' = [n |-> Len(res.data), err |-> res.err]
    /\ resultCh' = Tail(resultCh)
    /\ rd_pc' = "idle"
    /\ UNCHANGED <<hostChunks, hostErrored, hostCancels, hostReads,
                   readPromise, rd_closed, rd_p, rd_funcs, hostAll>>
    /\ UNCHANGED <<rd_closeCalls, doVars>>
    /\ UNCHANGED <<wsVars, serveVars, producerVars, raVars, obVars>>

\* A Close that never finds the reader closed.
AlreadyClosedNever == FALSE

\* if r.closed { return nil } at the head of Close.
AlreadyClosed == rd_closed

\* Close: the first call marks the reader closed and cancels the host
\* reader, which drops what the stream still held; a later call returns.
ReaderClose ==
    /\ HasReader
    /\ rd_pc = "idle"
    /\ rd_closeCalls < MaxCloses
    /\ rd_closeCalls' = rd_closeCalls + 1
    /\ IF AlreadyClosed
       THEN UNCHANGED <<rd_closed, hostCancels, hostChunks>>
       ELSE /\ rd_closed' = TRUE
            /\ hostCancels' = hostCancels + 1
            /\ hostChunks' = <<>>
    /\ UNCHANGED <<hostErrored, hostReads, readPromise, rd_pc, rd_p,
                   resultCh, rd_funcs, rd_out, rd_ret, hostAll>>
    /\ UNCHANGED doVars
    /\ UNCHANGED <<wsVars, serveVars, producerVars, raVars, obVars>>

\* ------------------------------------------------------------ socket (wsjs)
MessageChanCap == 128  \* make(chan []byte, 128)
ErrChCap       == 1    \* make(chan error, 1)
MaxMsgs        == 130  \* message events the host delivers
MaxReceives    == 3    \* messages NextMessage takes from the queue
MaxStreamMsgs  == 2    \* messages of a peer that sends payloads of any length
MaxPayload     == 3    \* bytes in the payload of one such message

ErrFailedToDial == "failed to dial websocket"
ErrClosed       == "websocket connection closed"


\* A few messages of any length, the empty one included.
ShortPlans == UNION {[1..k -> 0..MaxPayload] : k \in 0..MaxStreamMsgs}

\* What the peer sends: a flood of one-byte messages, or a short plan.
PeerPlans == {[k \in 1..MaxMsgs |-> 1]} \cup ShortPlans

\* The bytes of message k: byte j of message k is <<k, j>>.
Payload(k) == [j \in 1..peerLens[k] |-> <<k, j>>]

\* What Dial starts from: empty channels, nothing received or released.
WsIdle ==
    /\ currentBuffer = <<>>
    /\ ws_out = <<>>
    /\ ws_errored = FALSE
    /\ errCh = <<>>
    /\ dial_err = Nil
    /\ dial_ret = <<>>
    /\ messageChan = <<>>
    /\ closeChan = "open"
    /\ ws_released = 0
    /\ hostBlocked = "none"
    /\ blockedVal = 0
    /\ msgSeq = 0
    /\ nm_ret = <<>>
    /\ nm_count = 0
    /\ close_pc = "idle"
    /\ ws_readers = 0
    /\ ws_writers = 0
    /\ ws_wret = <<>>

\* Dial up to the receive from errCh: the socket is connecting and the four
\* handlers are listening.
WsInit ==
    /\ peerLens \in PeerPlans
    /\ ws_wrapped \in (IF peerLens \in ShortPlans THEN BOOLEAN ELSE {FALSE})
    /\ ws_ready = "connecting"
    /\ dial_pc = "blocked"
    /\ WsIdle

\* A run that is about another component: Dial has not been called.
WsQuiet ==
    /\ peerLens = <<>>
    /\ ws_wrapped = FALSE
    /\ ws_ready = "none"
    /\ dial_pc = "none"
    /\ WsIdle

\* The host runs one task at a time: no event fires while a handler is
\* blocked inside a channel send.
HostFree == hostBlocked = "none"

\* errCh <- v in onOpen and onError.  Dial waiting at the receive takes the
\* value directly; otherwise it goes to the buffer, and the send blocks the
\* handler, and the host with it, when the buffer is full.
SendErrCh(who, v) ==
    IF dial_pc = "blocked"
    THEN /\ dial_pc' = "woken"
         /\ dial_err' = v
         /\ UNCHANGED <<errCh, hostBlocked>>
    ELSE IF Len(errCh) < ErrChCap
    THEN /\ errCh' = Append(errCh, v)
         /\ UNCHANGED <<dial_pc, dial_err, hostBlocked>>
    ELSE /\ hostBlocked' = who
         /\ UNCHANGED <<errCh, dial_pc, dial_err>>

\* The open event and onOpen.
EvOpen ==
    /\ HostFree
    /\ ws_ready = "connecting"
    /\ ws_ready' = "open"
    /\ IF ws_released = 0
       THEN SendErrCh("onOpen", Nil)
       ELSE UNCHANGED <<errCh, dial_pc, dial_err, hostBlocked>>
    /\ UNCHANGED <<ws_errored, dial_ret, messageChan, closeChan, ws_released,
                   blockedVal, msgSeq, nm_ret, nm_count, close_pc>>
    /\ UNCHANGED <<peerLens, currentBuffer, ws_out, ws_wrapped, streamVars>>
    /\ UNCHANGED <<readerVars, serveVars, producerVars, raVars, obVars>>

\* The error event and onError; the host closes the socket after it.
EvError ==
    /\ HostFree
    /\ ws_ready \in {"connecting", "open"}
    /\ ~ws_errored
    /\ ws_errored' = TRUE
    /\ ws_ready' = "closing"
    /\ IF ws_released = 0
       THEN SendErrCh("onError", ErrFailedToDial)
       ELSE UNCHANGED <<errCh, dial_pc, dial_err, hostBlocked>>
    /\ UNCHANGED <<dial_ret, messageChan, closeChan, ws_released, blockedVal,
                   msgSeq, nm_ret, nm_count, close_pc>>
    /\ UNCHANGED <<peerLens, currentBuffer, ws_out, ws_wrapped, streamVars>>
    /\ UNCHANGED <<readerVars, serveVars, producerVars, raVars, obVars>>

\* A queue that hands out the newest message first.
SendMessageChanFront(m) ==
    IF Len(messageChan) < MessageChanCap
    THEN /\ messageChan' = <<m>> \o messageChan
         /\ UNCHANGED <<hostBlocked, blockedVal>>
    ELSE /\ hostBlocked' = "onMessage"
         /\ blockedVal' = m
         /\ UNCHANGED messageChan

\* conn.messageChan <- data in onMessage: queued while the buffer has room,
\* otherwise the handler blocks in the send.
SendMessageChan(m) ==
    IF Len(messageChan) < MessageChanCap
    THEN /\ messageChan' = Append(messageChan, m)
         /\ UNCHANGED <<hostBlocked, blockedVal>>
    ELSE /\ hostBlocked' = "onMessage"
         /\ blockedVal' = m
         /\ UNCHANGED messageChan

\* A message event (a text or a binary frame; both become the frame's bytes)
\* and onMessage.
EvMessage ==
    /\ HostFree
    /\ ws_ready = "open"
    /\ msgSeq < Len(peerLens)
    /\ msgSeq' = msgSeq + 1
    /\ IF ws_released = 0
       THEN SendMessageChan(msgSeq + 1)
       ELSE UNCHANGED <<messageChan, hostBlocked, blockedVal>>
    /\ UNCHANGED <<ws_ready, ws_errored, errCh, dial_pc, dial_err, dial_ret,
                   closeChan, ws_released, nm_ret, nm_count, close_pc>>
    /\ UNCHANGED <<peerLens, currentBuffer, ws_out, ws_wrapped, streamVars>>
    /\ UNCHANGED <<readerVars, serveVars, producerVars, raVars, obVars>>

\* The close event and onClose: close(conn.closeChan).
EvClose ==
    /\ HostFree
    /\ ws_ready \in {"open", "closing"}
    /\ ws_ready' = "closed"
    /\ closeChan' = IF ws_released = 0 THEN "closed" ELSE closeChan
    /\ UNCHANGED <<ws_errored, errCh, dial_pc, dial_err, dial_ret,
                   messageChan, ws_released, hostBlocked, blockedVal, msgSeq,
                   nm_ret, nm_count, close_pc>>
    /\ UNCHANGED <<peerLens, currentBuffer, ws_out, ws_wrapped, streamVars>>
    /\ UNCHANGED <<readerVars, serveVars, producerVars, raVars, obVars>>

\* A handler blocked in conn.messageChan <- data goes on once a receive has
\* made room.
HandlerResume ==
    /\ hostBlocked = "onMessage"
    /\ Len(messageChan) < MessageChanCap
    /\ messageChan' = Append(messageChan, blockedVal)
    /\ hostBlocked' = "none"
    /\ blockedVal' = 0
    /\ UNCHANGED <<ws_ready, ws_errored, errCh, dial_pc, dial_err, dial_ret,
                   closeChan, ws_released, msgSeq, nm_ret, nm_count, close_pc>>
    /\ UNCHANGED <<peerLens, currentBuffer, ws_out, ws_wrapped, streamVars>>
    /\ UNCHANGED <<readerVars, serveVars, producerVars, raVars, obVars>>

\* A Dial that hands out the connection whatever it received.
DialResultConn(e) == [conn |-> TRUE, err |-> e]

\* if err != nil { return nil, err }; return conn, nil
DialResult(e) == [conn |-> e = Nil, err |-> e]

\* A failed Dial that leaves its handlers with the host.
FreeFuncsOnFailureNever(e) == ws_released

\* if err != nil { conn.freeFuncs() }: the runs of freeFuncs after it.
FreeFuncsOnFailure(e) == IF e = Nil THEN ws_released ELSE ws_released + 1

\* conn.funcsToBeReleased as the host sees it: the four handlers Dial
\* registered, all of them live until freeFuncs has released them.
LiveHandlers ==
    IF ws_released = 0 THEN {"onOpen", "onError", "onMessage", "onClose"}
    ELSE {}

\* Dial after the receive: a connection, or freeFuncs and the error.
DialReturn ==
    /\ dial_pc = "woken"
    /\ dial_pc' = "returned"
    /\ dial_ret' = DialResult(dial_err)
    /\ ws_released' = FreeFuncsOnFailure(dial_err)
    /\ UNCHANGED <<ws_ready, ws_errored, errCh, dial_err, messageChan,
                   closeChan, hostBlocked, blockedVal, msgSeq, nm_ret,
                   nm_count, close_pc>>
    /\ UNCHANGED <<peerLens, currentBuffer, ws_out, ws_wrapped, streamVars>>
    /\ UNCHANGED <<readerVars, serveVars, producerVars, raVars, obVars>>

Dialed == dial_ret # <<>> /\ dial_ret.conn

\* What the select of NextMessage can return: each ready case may be the
\* one chosen.  left is the number of messages still queued at the return.
NextMessageResults ==
    {[msg |-> Head(messageChan), err |-> Nil, left |-> Len(messageChan) - 1]
        : x \in IF messageChan # <<>> /\ nm_count < MaxReceives
                THEN {1} ELSE {}}
    \cup
    {[msg |-> 0, err |-> ErrClosed, left |-> Len(messageChan)]
        : x \in IF closeChan = "closed" THEN {1} ELSE {}}

\* NextMessage, from the moment one of its cases is ready.
NextMessage ==
    /\ Dialed
    /\ ~ws_wrapped
    /\ \E r \in NextMessageResults :
          /\ nm_ret' = r
          /\ IF r.err = Nil
             THEN /\ messageChan' = Tail(messageChan)
                  /\ nm_count' = nm_count + 1
             ELSE UNCHANGED <<messageChan, nm_count>>
    /\ UNCHANGED <<ws_ready, ws_errored, errCh, dial_pc, dial_err, dial_ret,
                   closeChan, ws_released, hostBlocked, blockedVal, msgSeq,
                   close_pc>>
    /\ UNCHANGED <<peerLens, currentBuffer, ws_out, ws_wrapped, streamVars>>
    /\ UNCHANGED <<readerVars, serveVars, producerVars, raVars, obVars>>

\* Conn.Close up to the receive from closeChan: ws.close().
ConnCloseCall ==
    /\ Dialed
    /\ close_pc = "idle"
    /\ ws_released < MaxCloses
    /\ close_pc' = "blocked"
    /\ ws_ready' = IF ws_ready \in {"connecting", "open"} THEN "closing"
                   ELSE ws_ready
    /\ UNCHANGED <<ws_errored, errCh, dial_pc, dial_err, dial_ret,
                   messageChan, closeChan, ws_released, hostBlocked,
                   blockedVal, msgSeq, nm_ret, nm_count>>
    /\ UNCHANGED <<peerLens, currentBuffer, ws_out, ws_wrapped, streamVars>>
    /\ UNCHANGED <<readerVars, serveVars, producerVars, raVars, obVars>>

\* A Close that does not wait for the close event.
CloseChanReadyAlways == TRUE

\* <-conn.closeChan returns: onClose has closed the channel.
CloseChanReady == closeChan = "closed"

\* Conn.Close after the receive: freeFuncs.
ConnCloseReturn ==
    /\ close_pc = "blocked"
    /\ CloseChanReady
    /\ close_pc' = "idle"
    /\ ws_released' = ws_released + 1
    /\ UNCHANGED <<ws_ready, ws_errored, errCh, dial_pc, dial_err, dial_ret,
                   messageChan, closeChan, hostBlocked, blockedVal, msgSeq,
                   nm_ret, nm_count>>
    /\ UNCHANGED <<peerLens, currentBuffer, ws_out, ws_wrapped, streamVars>>
    /\ UNCHANGED <<readerVars, serveVars, producerVars, raVars, obVars>>

\* ---- WsStream
\* A Read that keeps nothing of a message longer than p.
RemainderNone(msg, n) == <<>>

\* What Read stores in currentBuffer of a message of which n bytes went
\* into p: msg[n:] when n < len(msg); currentBuffer is empty before.
Remainder(msg, n) == IF n < Len(msg) THEN Drop(msg, n) ELSE <<>>

\* A stream whose Read takes no lock.
ReadMuFreeAlways == TRUE

\* g.readMu.Lock() returns: no other caller is between Lock and Unlock.
ReadMuFree == ws_readers = 0

\* A stream whose Write takes no lock.
WriteMuFreeAlways == TRUE

\* g.writeMu.Lock() returns.
WriteMuFree == ws_writers = 0

\* WsStream.Read up to and with g.readMu.Lock().
WsReadEnter ==
    /\ Dialed
    /\ ws_wrapped
    /\ ws_readers < MaxCallers
    /\ ReadMuFree
    /\ ws_readers' = ws_readers + 1
    /\ UNCHANGED <<ws_ready, ws_errored, errCh, dial_pc, dial_err, dial_ret,
                   messageChan, closeChan, ws_released, hostBlocked,
                   blockedVal, msgSeq, nm_ret, nm_count, close_pc, peerLens,
                   currentBuffer, ws_out, ws_wrapped, ws_writers, ws_wret>>
    /\ UNCHANGED <<readerVars, serveVars, producerVars, raVars, obVars>>

\* The rest of WsStream.Read(p) with a carried-over remainder: bytes of the
\* remainder, no call of NextMessage, and the deferred Unlock.
WsReadBuffered(len) ==
    /\ ws_readers > 0
    /\ ws_readers' = ws_readers - 1
    /\ currentBuffer # <<>>
    /\ LET n == Min(len, Len(currentBuffer))
       IN  /\ ws_out' = ws_out \o Take(currentBuffer, n)
           /\ currentBuffer' = Drop(currentBuffer, n)
    /\ UNCHANGED <<ws_ready, ws_errored, errCh, dial_pc, dial_err, dial_ret,
                   messageChan, closeChan, ws_released, hostBlocked,
                   blockedVal, msgSeq, nm_ret, nm_count, close_pc, peerLens,
                   ws_wrapped, ws_writers, ws_wret>>
    /\ UNCHANGED <<readerVars, serveVars, producerVars, raVars, obVars>>

\* The rest of WsStream.Read(p) without one, from the moment NextMessage
\* can return: the error of NextMessage, or the first bytes of the message,
\* the rest of it kept for the next Read; then the deferred Unlock.
WsReadMessage(len) ==
    /\ ws_readers > 0
    /\ ws_readers' = ws_readers - 1
    /\ currentBuffer = <<>>
    /\ \E r \in NextMessageResults :
          /\ nm_ret' = r
          /\ IF r.err # Nil
             THEN UNCHANGED <<messageChan, nm_count, ws_out, currentBuffer>>
             ELSE LET msg == Payload(r.msg)
                      n == Min(len, Len(msg))
                  IN  /\ messageChan' = Tail(messageChan)
                      /\ nm_count' = nm_count + 1
                      /\ ws_out' = ws_out \o Take(msg, n)
                      /\ currentBuffer' = Remainder(msg, n)
    /\ UNCHANGED <<ws_ready, ws_errored, errCh, dial_pc, dial_err, dial_ret,
                   closeChan, ws_released, hostBlocked, blockedVal, msgSeq,
                   close_pc, peerLens, ws_wrapped, ws_writers, ws_wret>>
    /\ UNCHANGED <<readerVars, serveVars, producerVars, raVars, obVars>>

\* A buffer of len bytes passed to Write: byte j of it is <<"w", j>>.
WriteBuf(len) == [j \in 1..len |-> <<"w", j>>]

\* ws.send(buffer) of the host: one binary frame with the whole buffer on
\* an open socket; on a closing or closed socket the data is dropped and
\* nothing is thrown.
HostSend(p) == IF ws_ready = "open" THEN <<p>> ELSE <<>>

\* What Conn.Send returns: return nil, whatever the host did.
SendErr == Nil

\* WsStream.Write up to and with g.writeMu.Lock().
WsWriteEnter ==
    /\ Dialed
    /\ ws_wrapped
    /\ ws_writers < MaxCallers
    /\ WriteMuFree
    /\ ws_writers' = ws_writers + 1
    /\ UNCHANGED <<ws_ready, ws_errored, errCh, dial_pc, dial_err, dial_ret,
                   messageChan, closeChan, ws_released, hostBlocked,
                   blockedVal, msgSeq, nm_ret, nm_count, close_pc, peerLens,
                   currentBuffer, ws_out, ws_wrapped, ws_readers, ws_wret>>
    /\ UNCHANGED <<readerVars, serveVars, producerVars, raVars, obVars>>

\* The rest of WsStream.Write(p): g.conn.Send(p), 0 and the error or len(p)
\* and nil, and the deferred Unlock.
WsWriteSend(len) ==
    /\ ws_writers > 0
    /\ ws_writers' = ws_writers - 1
    /\ LET p == WriteBuf(len)
           err == SendErr
       IN  ws_wret' = [n |-> IF err # Nil THEN 0 ELSE Len(p),
                       err |-> err, p |-> p, frame |-> HostSend(p)]
    /\ UNCHANGED <<ws_ready, ws_errored, errCh, dial_pc, dial_err, dial_ret,
                   messageChan, closeChan, ws_released, hostBlocked,
                   blockedVal, msgSeq, nm_ret, nm_count, close_pc, peerLens,
                   currentBuffer, ws_out, ws_wrapped, ws_readers>>
    /\ UNCHANGED <<readerVars, serveVars, producerVars, raVars, obVars>>

\* ------------------------------------------- streaming responder (httpjs)
StatusOK                  == 200  \* http.StatusOK
StatusInternalServerError == 500  \* http.StatusInternalServerError
StatusBadGateway          == 502  \* http.StatusBadGateway
ScratchSize               == 4096 \* len(rs.buffer) of a ReadableStream

MaxHandlerOps == 3  \* calls the handler makes on its ResponseWriter
MaxWriteLen   == 2  \* bytes in one Write of the handler

\* What the handler passes to WriteHeader and to Header().Set.
HandlerStatuses == {201, 404}
HandlerKeys     == {"X-Test"}
HandlerValues   == {"a", "b"}

ErrClosedPipe  == "io: read/write on closed pipe"
ErrInternal    == "internal server error"

\* The body http.Error writes: the message, then the newline of Fprintln.
ErrorBody == <<"Bad Gateway", "\n\nUpstream server error", "\n">>

\* The k-th body byte the handler writes.
HandlerByte(k) == ToString(k)


NoMap == [k \in {} |-> ""]

\* m with key k set to v: http.Header.Set.
MapSet(m, k, v) == [x \in DOMAIN m \cup {k} |-> IF x = k THEN v ELSE m[x]]
\* m without key k: http.Header.Del.
MapDel(m, k) == [x \in DOMAIN m \ {k} |-> m[x]]

\* The state ServeHTTPAsyncWithStreaming starts its worker in.
ServeIdle ==
    /\ sv_pc = "start"
    /\ promise = [state |-> "pending", status |-> 0, headers |-> NoMap]
    /\ httpResp = [status |-> 0]
    /\ jsHeaders = NoMap
    /\ hd_pc = "none"
    /\ hd_ops = 0
    /\ hd_wret = <<>>
    /\ wroteHeader = FALSE
    /\ statusCode = StatusOK
    /\ header = NoMap
    /\ wroteHeaderChan = "open"
    /\ pipe_buf = <<>>
    /\ pipe_n = 0
    /\ pipe_werr = Nil
    /\ pipe_rerr = Nil
    /\ st_state = "none"
    /\ st_chunks = <<>>
    /\ pull_pc = "none"
    /\ pullPromise = "none"
    /\ rs_closes = 0
    /\ hs_commits = 0
    /\ hs_commit = <<>>
    /\ hs_fault = "no"
    /\ hs_forced = FALSE
    /\ hs_written = <<>>
    /\ hs_lastPull = "none"
    /\ hs_atResolve = -1

\* The worker inside JSRequestToHTTPRequest: a request without a body, or
\* one whose arrayBuffer() promise is pending; well-formed or not.
ServeInit ==
    /\ ServeIdle
    /\ rq_body \in {"none", "pending"}
    /\ rq_malformed \in BOOLEAN

\* A run that is about another component: a request that is not looked at.
ServeQuiet ==
    /\ ServeIdle
    /\ rq_body = "none"
    /\ rq_malformed = FALSE

\* ---- io.Pipe
PipeDone == pipe_werr # Nil \/ pipe_rerr # Nil

\* pipe.readCloseError: the writer's error unless the reader closed first.
ReadCloseError ==
    IF pipe_rerr = Nil /\ pipe_werr # Nil THEN pipe_werr ELSE ErrClosedPipe

\* pipe.writeCloseError: the reader's error unless the writer closed first.
WriteCloseError ==
    IF pipe_werr = Nil /\ pipe_rerr # Nil THEN pipe_rerr ELSE ErrClosedPipe

\* A Close of the write side that leaves the pipe open.
CloseWriteNothing(err) == pipe_werr' = pipe_werr

\* pw.CloseWithError(err); a nil err closes with io.EOF, and the first
\* error stored is the one kept.
CloseWrite(err) ==
    pipe_werr' = IF pipe_werr # Nil THEN pipe_werr
                 ELSE IF err = Nil THEN EOF ELSE err

\* A Close of the read side that leaves the pipe open.
CloseReadNothing == pipe_rerr' = pipe_rerr

\* pr.Close(): the read side closes with ErrClosedPipe.
CloseRead ==
    pipe_rerr' = IF pipe_rerr # Nil THEN pipe_rerr ELSE ErrClosedPipe
\* ---- streamingResponseWriter
\* A WriteHeader whose later calls overwrite the status.
WriteHeaderOverwrite(s, kind) ==
    /\ statusCode' = s
    /\ wroteHeader' = TRUE
    /\ wroteHeaderChan' = "closed"
    /\ IF ~wroteHeader
       THEN /\ hs_commits' = hs_commits + 1
            /\ hs_commit' = [status |-> s, header |-> header, kind |-> kind]
       ELSE UNCHANGED <<hs_commits, hs_commit>>

\* WriteHeader(s): the first call sets the status, marks the header written
\* and closes wroteHeaderChan; a later call does nothing.  kind says who
\* called: the handler ("explicit"), Write ("implicit") or the bridge after
\* the handler returned ("forced").
WriteHeaderOp(s, kind) ==
    IF ~wroteHeader
    THEN /\ statusCode' = s
         /\ wroteHeader' = TRUE
         /\ wroteHeaderChan' = "closed"
         /\ hs_commits' = hs_commits + 1
         /\ hs_commit' = [status |-> s, header |-> header, kind |-> kind]
    ELSE UNCHANGED <<statusCode, wroteHeader, wroteHeaderChan, hs_commits,
                     hs_commit>>

\* The status Write commits when no header was written before it.
ImplicitStatus == StatusOK

\* A forced commit with the status of a fault.
ForcedStatusOfFault == StatusInternalServerError

\* The status the bridge commits when the handler returned without one.
ForcedStatus == StatusBadGateway

\* A recovery that closes the pipe as a normal end: pw.Close().
RecoverErrorNone == Nil

\* The error the recovered fault terminates the pipe with.
RecoverError == ErrInternal

\* pipeWriter.Write(b) up to its first wait: on a closed pipe it returns 0
\* and the close error, otherwise the writer waits for the reader with b.
\* next is where the worker continues after a refused Write.
PipeWriteStart(b, blocked, next) ==
    /\ hs_written' = hs_written \o b
    /\ IF PipeDone
       THEN /\ hd_wret' = [n |-> 0, err |-> WriteCloseError]
            /\ hd_pc' = next
            /\ UNCHANGED <<pipe_buf, pipe_n>>
       ELSE /\ pipe_buf' = b
            /\ pipe_n' = 0
            /\ hd_pc' = blocked
            /\ UNCHANGED hd_wret

\* pipeWriter.Write leaves its wait: every byte was read, or the pipe was
\* closed with bytes left.
PipeWriteReady == pipe_buf = <<>> \/ PipeDone

PipeWriteResult ==
    IF pipe_buf = <<>> THEN [n |-> pipe_n, err |-> Nil]
    ELSE [n |-> pipe_n, err |-> WriteCloseError]

\* ---- the handler worker
\* The handler calls w.Header().Set(k, v).
HSetHeader(k, v) ==
    /\ hd_pc = "run"
    /\ hd_ops < MaxHandlerOps
    /\ hd_ops' = hd_ops + 1
    /\ header' = MapSet(header, k, v)
    /\ UNCHANGED <<sv_pc, promise, httpResp, jsHeaders, hd_pc, hd_wret,
                   wroteHeader, statusCode, wroteHeaderChan, pipe_buf, pipe_n,
                   pipe_werr, pipe_rerr, st_state, st_chunks, pull_pc,
                   pullPromise, rs_closes, hs_commits, hs_commit, hs_fault,
                   hs_forced, hs_written, hs_lastPull,
                   hs_atResolve>>
    /\ UNCHANGED <<rq_body, rq_malformed, readerVars, wsVars, producerVars,
                   raVars, obVars>>

\* The handler calls w.WriteHeader(s).
HWriteHeader(s) ==
    /\ hd_pc = "run"
    /\ hd_ops < MaxHandlerOps
    /\ hd_ops' = hd_ops + 1
    /\ WriteHeaderOp(s, "explicit")
    /\ UNCHANGED <<sv_pc, promise, httpResp, jsHeaders, hd_pc, hd_wret,
                   header, pipe_buf, pipe_n, pipe_werr, pipe_rerr, st_state,
                   st_chunks, pull_pc, pullPromise, rs_closes, hs_fault,
                   hs_forced, hs_written, hs_lastPull,
                   hs_atResolve>>
    /\ UNCHANGED <<rq_body, rq_malformed, readerVars, wsVars, producerVars,
                   raVars, obVars>>

\* The handler calls w.Write(b) with its next n body bytes.
HWrite(n) ==
    /\ hd_pc = "run"
    /\ hd_ops < MaxHandlerOps
    /\ hd_ops' = hd_ops + 1
    /\ WriteHeaderOp(ImplicitStatus, "implicit")
    /\ PipeWriteStart([i \in 1..n |-> HandlerByte(Len(hs_written) + i)],
                      "write", "run")
    /\ UNCHANGED <<sv_pc, promise, httpResp, jsHeaders, header, pipe_werr,
                   pipe_rerr, st_state, st_chunks, pull_pc, pullPromise,
                   rs_closes, hs_fault, hs_forced, hs_lastPull,
                   hs_atResolve>>
    /\ UNCHANGED <<rq_body, rq_malformed, readerVars, wsVars, producerVars,
                   raVars, obVars>>

\* The handler's Write returns.
HWriteReturn ==
    /\ hd_pc = "write"
    /\ PipeWriteReady
    /\ hd_wret' = PipeWriteResult
    /\ pipe_buf' = <<>>
    /\ hd_pc' = "run"
    /\ UNCHANGED <<sv_pc, promise, httpResp, jsHeaders, hd_ops, wroteHeader,
                   statusCode, header, wroteHeaderChan, pipe_n, pipe_werr,
                   pipe_rerr, st_state, st_chunks, pull_pc, pullPromise,
                   rs_closes, hs_commits, hs_commit, hs_fault, hs_forced,
                   hs_written, hs_lastPull,
                   hs_atResolve>>
    /\ UNCHANGED <<rq_body, rq_malformed, readerVars, wsVars, producerVars,
                   raVars, obVars>>

\* The handler panics; the deferred recover sets the status and closes the
\* pipe with an error, and the deferred pw.Close() finds it closed.
HPanic ==
    /\ hd_pc = "run"
    /\ statusCode' = StatusInternalServerError
    /\ CloseWrite(RecoverError)
    /\ hs_fault' = IF wroteHeader THEN "after" ELSE "before"
    /\ hd_pc' = "done"
    /\ UNCHANGED <<sv_pc, promise, httpResp, jsHeaders, hd_ops, hd_wret,
                   wroteHeader, header, wroteHeaderChan, pipe_buf, pipe_n,
                   pipe_rerr, st_state, st_chunks, pull_pc, pullPromise,
                   rs_closes, hs_commits, hs_commit, hs_forced, hs_written,
                   hs_lastPull,
                   hs_atResolve>>
    /\ UNCHANGED <<rq_body, rq_malformed, readerVars, wsVars, producerVars,
                   raVars, obVars>>

\* The handler returns.  With the header written the worker ends in
\* pw.Close(); without, the bridge calls WriteHeader(502) itself.
HReturn ==
    /\ hd_pc = "run"
    /\ IF wroteHeader
       THEN /\ CloseWrite(Nil)
            /\ hd_pc' = "done"
            /\ UNCHANGED <<statusCode, wroteHeader, wroteHeaderChan,
                           hs_commits, hs_commit, hs_forced>>
       ELSE /\ WriteHeaderOp(ForcedStatus, "forced")
            /\ hs_forced' = TRUE
            /\ hd_pc' = "httpError"
            /\ UNCHANGED pipe_werr
    /\ UNCHANGED <<sv_pc, promise, httpResp, jsHeaders, hd_ops, hd_wret,
                   header, pipe_buf, pipe_n, pipe_rerr, st_state, st_chunks,
                   pull_pc, pullPromise, rs_closes, hs_fault, hs_written,
                   hs_lastPull,
                   hs_atResolve>>
    /\ UNCHANGED <<rq_body, rq_malformed, readerVars, wsVars, producerVars,
                   raVars, obVars>>

\* The header http.Error leaves: no Content-Length, a plain-text type.
HttpErrorHeader(h) ==
    MapSet(MapSet(MapDel(h, "Content-Length"),
                  "Content-Type", "text/plain; charset=utf-8"),
           "X-Content-Type-Options", "nosniff")

\* http.Error(respWriter, "Bad Gateway...", 502) up to the wait of its
\* Write: the header fields, a WriteHeader that finds the header written,
\* and the body.
HHttpError ==
    /\ hd_pc = "httpError"
    /\ header' = HttpErrorHeader(header)
    /\ WriteHeaderOp(ForcedStatus, "forced")
    /\ PipeWriteStart(ErrorBody, "errWrite", "errClose")
    /\ UNCHANGED <<sv_pc, promise, httpResp, jsHeaders, hd_ops, pipe_werr,
                   pipe_rerr, st_state, st_chunks, pull_pc, pullPromise,
                   rs_closes, hs_fault, hs_forced, hs_lastPull,
                   hs_atResolve>>
    /\ UNCHANGED <<rq_body, rq_malformed, readerVars, wsVars, producerVars,
                   raVars, obVars>>

\* The Write of http.Error returns.
HErrWriteReturn ==
    /\ hd_pc = "errWrite"
    /\ PipeWriteReady
    /\ hd_wret' = PipeWriteResult
    /\ pipe_buf' = <<>>
    /\ hd_pc' = "errClose"
    /\ UNCHANGED <<sv_pc, promise, httpResp, jsHeaders, hd_ops, wroteHeader,
                   statusCode, header, wroteHeaderChan, pipe_n, pipe_werr,
                   pipe_rerr, st_state, st_chunks, pull_pc, pullPromise,
                   rs_closes, hs_commits, hs_commit, hs_fault, hs_forced,
                   hs_written, hs_lastPull,
                   hs_atResolve>>
    /\ UNCHANGED <<rq_body, rq_malformed, readerVars, wsVars, producerVars,
                   raVars, obVars>>

\* The worker ends after the forced 502: the deferred pw.Close().
HErrClose ==
    /\ hd_pc = "errClose"
    /\ CloseWrite(Nil)
    /\ hd_pc' = "done"
    /\ UNCHANGED <<sv_pc, promise, httpResp, jsHeaders, hd_ops, hd_wret,
                   wroteHeader, statusCode, header, wroteHeaderChan, pipe_buf,
                   pipe_n, pipe_rerr, st_state, st_chunks, pull_pc,
                   pullPromise, rs_closes, hs_commits, hs_commit, hs_fault,
                   hs_forced, hs_written, hs_lastPull,
                   hs_atResolve>>
    /\ UNCHANGED <<rq_body, rq_malformed, readerVars, wsVars, producerVars,
                   raVars, obVars>>
\* ---- the responder worker
\* The host settles the promise of jsReq.arrayBuffer(): successFunc sends
\* the whole body on bodyChan, or failFunc the error on errChan.
BodySettle(ok) ==
    /\ rq_body = "pending"
    /\ rq_body' = IF ok THEN "fulfilled" ELSE "rejected"
    /\ UNCHANGED <<sv_pc, promise, httpResp, jsHeaders, hd_pc, hd_ops,
                   hd_wret, wroteHeader, statusCode, header, wroteHeaderChan,
                   pipe_buf, pipe_n, pipe_werr, pipe_rerr, st_state,
                   st_chunks, pull_pc, pullPromise, rs_closes, hs_commits,
                   hs_commit, hs_fault, hs_forced, hs_written, hs_lastPull,
                   hs_atResolve, rq_malformed>>
    /\ UNCHANGED <<readerVars, wsVars, producerVars, raVars, obVars>>

\* A conversion that does not wait for the body.
BodySettledAlways == TRUE

\* The select over bodyChan and errChan returns; without a body there is
\* no select.
BodySettled == rq_body # "pending"

\* A conversion that never fails.
ConversionOkAlways == TRUE

\* JSRequestToHTTPRequest returns a request: the body was not rejected, and
\* neither http.NewRequest nor ReadMIMEHeader returned an error.
ConversionOk == rq_body # "rejected" /\ ~rq_malformed

\* The rest of JSRequestToHTTPRequest, then the pipe, the writer and the
\* handler's worker; a failed conversion rejects the promise and runs no
\* handler.
SvStart ==
    /\ sv_pc = "start"
    /\ BodySettled
    /\ IF ConversionOk
       THEN /\ sv_pc' = "waitHeader"
            /\ hd_pc' = "run"
            /\ UNCHANGED promise
       ELSE /\ sv_pc' = "done"
            /\ promise' = [promise EXCEPT !.state = "rejected"]
            /\ UNCHANGED hd_pc
    /\ UNCHANGED <<httpResp, jsHeaders, hd_ops, hd_wret, wroteHeader,
                   statusCode, header, wroteHeaderChan, pipe_buf, pipe_n,
                   pipe_werr, pipe_rerr, st_state, st_chunks, pull_pc,
                   pullPromise, rs_closes, hs_commits, hs_commit, hs_fault,
                   hs_forced, hs_written, hs_lastPull,
                   hs_atResolve>>
    /\ UNCHANGED <<rq_body, rq_malformed, readerVars, wsVars, producerVars,
                   raVars, obVars>>

\* A responder that goes on only once the handler's worker has ended.
HeaderWaitOverAtReturn == wroteHeaderChan = "closed" /\ hd_pc = "done"

\* <-respWriter.wroteHeaderChan returns: nothing is ever sent on the
\* channel, so only its close lets the receive through.
HeaderWaitOver == wroteHeaderChan = "closed"

\* The receive from wroteHeaderChan and the http.Response literal, which
\* reads statusCode.
SvBuild ==
    /\ sv_pc = "waitHeader"
    /\ HeaderWaitOver
    /\ httpResp' = [status |-> statusCode]
    /\ sv_pc' = "headers"
    /\ UNCHANGED <<promise, jsHeaders, hd_pc, hd_ops, hd_wret, wroteHeader,
                   statusCode, header, wroteHeaderChan, pipe_buf, pipe_n,
                   pipe_werr, pipe_rerr, st_state, st_chunks, pull_pc,
                   pullPromise, rs_closes, hs_commits, hs_commit, hs_fault,
                   hs_forced, hs_written, hs_lastPull,
                   hs_atResolve>>
    /\ UNCHANGED <<rq_body, rq_malformed, readerVars, wsVars, producerVars,
                   raVars, obVars>>

\* HTTPResponseToJSResponse, the loop over httpResp.Header: the map is the
\* writer's own, read as it is now.
SvHeaders ==
    /\ sv_pc = "headers"
    /\ jsHeaders' = header
    /\ sv_pc' = "resolve"
    /\ UNCHANGED <<promise, httpResp, hd_pc, hd_ops, hd_wret, wroteHeader,
                   statusCode, header, wroteHeaderChan, pipe_buf, pipe_n,
                   pipe_werr, pipe_rerr, st_state, st_chunks, pull_pc,
                   pullPromise, rs_closes, hs_commits, hs_commit, hs_fault,
                   hs_forced, hs_written, hs_lastPull,
                   hs_atResolve>>
    /\ UNCHANGED <<rq_body, rq_malformed, readerVars, wsVars, producerVars,
                   raVars, obVars>>

\* NewReadableStream(pr), the host Response and resolve.Invoke(jsResp).
SvResolve ==
    /\ sv_pc = "resolve"
    /\ st_state' = "readable"
    /\ promise' = [state |-> "resolved", status |-> httpResp.status,
                   headers |-> jsHeaders]
    /\ sv_pc' = "done"
    /\ hs_atResolve' = Len(hs_written)
    /\ UNCHANGED <<httpResp, jsHeaders, hd_pc, hd_ops, hd_wret, wroteHeader,
                   statusCode, header, wroteHeaderChan, pipe_buf, pipe_n,
                   pipe_werr, pipe_rerr, st_chunks, pull_pc, pullPromise,
                   rs_closes, hs_commits, hs_commit, hs_fault, hs_forced,
                   hs_written, hs_lastPull>>
    /\ UNCHANGED <<rq_body, rq_malformed, readerVars, wsVars, producerVars,
                   raVars, obVars>>

\* ---- the produced stream (streamjs.ReadableStream) and the host
\* The host calls pull: onPull makes the promise, whose executor starts the
\* worker that reads.  The host calls pull again only once that promise
\* has settled.
HostPull ==
    /\ st_state = "readable"
    /\ pull_pc = "none"
    /\ pull_pc' = "reading"
    /\ pullPromise' = "pending"
    /\ UNCHANGED <<sv_pc, promise, httpResp, jsHeaders, hd_pc, hd_ops,
                   hd_wret, wroteHeader, statusCode, header, wroteHeaderChan,
                   pipe_buf, pipe_n, pipe_werr, pipe_rerr, st_state,
                   st_chunks, rs_closes, hs_commits, hs_commit, hs_fault,
                   hs_forced, hs_written, hs_lastPull,
                   hs_atResolve>>
    /\ UNCHANGED <<rq_body, rq_malformed, readerVars, wsVars, producerVars,
                   raVars, obVars>>

\* pr.Read(rs.buffer) can return: the pipe is closed, or a Write waits.
PipeReadReady == PipeDone \/ pipe_buf # <<>>

\* What pr.Read(rs.buffer) returns: the close error of a closed pipe, else
\* as much of the waiting Write as the buffer takes.
PipeReadResult ==
    IF PipeDone THEN [data |-> <<>>, err |-> ReadCloseError]
    ELSE [data |-> Take(pipe_buf, Min(Len(pipe_buf), ScratchSize)),
          err |-> Nil]

\* controller.error(e) acts on a readable stream only.
ControllerError == IF st_state = "readable" THEN "errored" ELSE st_state

\* The pull worker from the return of rs.r.Read on: close on io.EOF; error
\* and reject on another error; otherwise enqueue a chunk of the bytes read
\* and resolve.
PullFinish ==
    /\ pull_pc = "reading"
    /\ PipeReadReady
    /\ LET r == PipeReadResult
       IN  IF r.err = EOF
           THEN /\ st_state' = "closed"
                /\ pullPromise' = "resolved"
                /\ hs_lastPull' = "eof"
                /\ UNCHANGED <<st_chunks, pipe_buf, pipe_n>>
           ELSE IF r.err # Nil
           THEN /\ st_state' = ControllerError
                /\ pullPromise' = "rejected"
                /\ hs_lastPull' = "error"
                /\ UNCHANGED <<st_chunks, pipe_buf, pipe_n>>
           ELSE /\ st_chunks' = Append(st_chunks, r.data)
                /\ pipe_buf' = Drop(pipe_buf, Len(r.data))
                /\ pipe_n' = pipe_n + Len(r.data)
                /\ pullPromise' = "resolved"
                /\ hs_lastPull' = "data"
                /\ UNCHANGED st_state
    /\ pull_pc' = "none"
    /\ UNCHANGED <<sv_pc, promise, httpResp, jsHeaders, hd_pc, hd_ops,
                   hd_wret, wroteHeader, statusCode, header, wroteHeaderChan,
                   pipe_werr, pipe_rerr, rs_closes, hs_commits, hs_commit,
                   hs_fault, hs_forced, hs_written, hs_atResolve>>
    /\ UNCHANGED <<rq_body, rq_malformed, readerVars, wsVars, producerVars,
                   raVars, obVars>>

\* The host cancels the stream: onCancel closes the reader through
\* closeOnce.
HostCancel ==
    /\ st_state = "readable"
    /\ st_state' = "cancelled"
    /\ IF rs_closes = 0
       THEN /\ rs_closes' = 1
            /\ CloseRead
       ELSE UNCHANGED <<rs_closes, pipe_rerr>>
    /\ UNCHANGED <<sv_pc, promise, httpResp, jsHeaders, hd_pc, hd_ops,
                   hd_wret, wroteHeader, statusCode, header, wroteHeaderChan,
                   pipe_buf, pipe_n, pipe_werr, st_chunks, pull_pc,
                   pullPromise, hs_commits, hs_commit, hs_fault, hs_forced,
                   hs_written, hs_lastPull,
                   hs_atResolve>>
    /\ UNCHANGED <<rq_body, rq_malformed, readerVars, wsVars, producerVars,
                   raVars, obVars>>

\* ------------------------------- pull-to-push producer (streamjs), any reader
MaxPulls    == 3   \* calls of pull by the host
MaxReadStep == 1   \* the smaller sizes a Read of the underlying reader returns
MaxTotal    == 2   \* the reader's bytes, up to this and this over the scratch

ErrReaderClosed == "read on closed reader"
ErrRead         == "read failed"

\* The lengths of the readers the producer is run over.
Totals == (0..MaxTotal) \cup {ScratchSize + k : k \in 0..MaxTotal}

ProducerIdle ==
    /\ ps_off = 0
    /\ ps_rcloses = 0
    /\ ps_chunks = <<>>
    /\ ps_reading = 0
    /\ ps_promise = "none"
    /\ ps_pulls = 0
    /\ ps_reads = 0
    /\ ps_execs = 0
    /\ ps_relCalls = 0
    /\ ps_closeCalls = 0
    /\ ps_cancels = 0
    /\ ps_crashed = FALSE

\* The state NewReadableStream returns in: a readable stream with its
\* three callbacks registered.
ProducerInit ==
    /\ ps_total \in Totals
    /\ ps_state = "readable"
    /\ ps_funcs = {"onStart", "onPull", "onCancel"}
    /\ ProducerIdle

\* A run that is about another component: no stream was made.
ProducerQuiet ==
    /\ ps_total = 0
    /\ ps_state = "none"
    /\ ps_funcs = {}
    /\ ProducerIdle

\* The sizes a Read into a buffer with room for cap bytes returns.
ReadSizes(cap) == (0..Min(MaxReadStep, cap)) \cup {cap}

\* What rs.r.Read(rs.buffer) can return, by the io.Reader contract: some of
\* the bytes left, at most len(rs.buffer), with a nil error; the last bytes
\* together with io.EOF, or 0 and io.EOF after them; a failure; and from a
\* closed reader an error or io.EOF.
ReaderResults ==
    IF ps_rcloses > 0
    THEN {[n |-> 0, err |-> ErrReaderClosed], [n |-> 0, err |-> EOF]}
    ELSE LET rem == ps_total - ps_off
         IN  {[n |-> k, err |-> Nil] : k \in ReadSizes(Min(rem, ScratchSize))}
             \cup {[n |-> rem, err |-> EOF]
                      : x \in IF rem <= ScratchSize THEN {1} ELSE {}}
             \cup {[n |-> 0, err |-> ErrRead]}

\* A guard that closes the reader at every call.
OnceCloseAlways == ps_rcloses + 1

\* rs.closeOnce.Do(func() { rs.r.Close() }): the calls of rs.r.Close()
\* after it.
OnceClose == IF ps_rcloses = 0 THEN 1 ELSE ps_rcloses

\* A host that calls pull whenever the stream is readable.
PullAllowedAlways == TRUE

\* The host calls pull again only once the promise the last pull returned
\* has settled.
PullAllowed == ps_promise # "pending"

\* The host calls pull.  onPull returns a promise whose executor starts the
\* worker that reads; a released onPull does not run, and the host takes
\* its undefined result for a finished pull.
PsPull ==
    /\ ~ps_crashed
    /\ ps_state = "readable"
    /\ PullAllowed
    /\ ps_pulls < MaxPulls
    /\ ps_pulls' = ps_pulls + 1
    /\ IF "onPull" \in ps_funcs
       THEN /\ ps_promise' = "pending"
            /\ ps_execs' = ps_execs + 1
            /\ ps_reading' = ps_reading + 1
            /\ ps_reads' = ps_reads + 1
       ELSE /\ ps_promise' = "resolved"
            /\ UNCHANGED <<ps_execs, ps_reading, ps_reads>>
    /\ UNCHANGED <<ps_total, ps_off, ps_rcloses, ps_state, ps_chunks,
                   ps_funcs, ps_relCalls, ps_closeCalls, ps_cancels,
                   ps_crashed>>
    /\ UNCHANGED <<readerVars, wsVars, serveVars, raVars, obVars>>

\* controller.error(e) on a stream in state st.
StreamAfterError(st) == IF st = "readable" THEN "errored" ELSE st

\* The pull worker from the return of rs.r.Read on, promiseFn released at
\* its end.  With an error the bytes read are not looked at: io.EOF closes
\* the stream, another error errors it and rejects.  Otherwise the n bytes
\* are enqueued as one chunk.  controller.close() and enqueue() throw on a
\* stream that is not readable, which panics the worker.
PsPullFinish ==
    /\ ~ps_crashed
    /\ ps_reading > 0
    /\ \E r \in ReaderResults :
          /\ ps_off' = ps_off + r.n
          /\ IF r.err = EOF
             THEN IF ps_state = "readable"
                  THEN /\ ps_state' = "closed"
                       /\ ps_promise' = "resolved"
                       /\ UNCHANGED <<ps_chunks, ps_crashed>>
                  ELSE /\ ps_crashed' = TRUE
                       /\ UNCHANGED <<ps_state, ps_promise, ps_chunks>>
             ELSE IF r.err # Nil
             THEN /\ ps_state' = StreamAfterError(ps_state)
                  /\ ps_promise' = "rejected"
                  /\ UNCHANGED <<ps_chunks, ps_crashed>>
             ELSE IF r.n > 0
             THEN IF ps_state = "readable"
                  THEN /\ ps_chunks' = Append(ps_chunks,
                                              [off |-> ps_off, len |-> r.n])
                       /\ ps_promise' = "resolved"
                       /\ UNCHANGED <<ps_state, ps_crashed>>
                  ELSE /\ ps_crashed' = TRUE
                       /\ UNCHANGED <<ps_state, ps_promise, ps_chunks>>
             ELSE /\ ps_promise' = "resolved"
                  /\ UNCHANGED <<ps_state, ps_chunks, ps_crashed>>
    /\ ps_reading' = ps_reading - 1
    /\ ps_execs' = ps_execs - 1
    /\ UNCHANGED <<ps_total, ps_rcloses, ps_pulls, ps_reads, ps_funcs,
                   ps_relCalls, ps_closeCalls, ps_cancels>>
    /\ UNCHANGED <<readerVars, wsVars, serveVars, raVars, obVars>>

\* The host cancels the stream: onCancel, unless released, closes the
\* reader through closeOnce.
PsCancel ==
    /\ ~ps_crashed
    /\ ps_state = "readable"
    /\ ps_state' = "cancelled"
    /\ ps_cancels' = ps_cancels + 1
    /\ ps_rcloses' = IF "onCancel" \in ps_funcs THEN OnceClose ELSE ps_rcloses
    /\ UNCHANGED <<ps_total, ps_off, ps_chunks, ps_reading, ps_promise,
                   ps_pulls, ps_reads, ps_funcs, ps_execs, ps_relCalls,
                   ps_closeCalls, ps_crashed>>
    /\ UNCHANGED <<readerVars, wsVars, serveVars, raVars, obVars>>

\* ReadableStream.Close by the owner: every handle of funcsToBeReleased is
\* released, then the reader is closed through closeOnce.
PsClose ==
    /\ ~ps_crashed
    /\ ps_state # "none"
    /\ ps_closeCalls < MaxCloses
    /\ ps_closeCalls' = ps_closeCalls + 1
    /\ ps_funcs' = {}
    /\ ps_relCalls' = ps_relCalls + 1
    /\ ps_rcloses' = OnceClose
    /\ UNCHANGED <<ps_total, ps_off, ps_state, ps_chunks, ps_reading,
                   ps_promise, ps_pulls, ps_reads, ps_execs, ps_cancels,
                   ps_crashed>>
    /\ UNCHANGED <<readerVars, wsVars, serveVars, raVars, obVars>>

\* ------------------------------------------------- Post and Put (httpjs)
\* The characters of a content-type argument: a space and a letter.
CtChars == {" ", "t"}

\* Strings are sequences of characters; "" is <<>>.
CtArgs == UNION {[1..n -> CtChars] : n \in 0..MaxCtLen}

BodyArgs == {[j \in 1..n |-> j] : n \in 0..MaxBuf}

\* NewRequest: empty headers, no body.
NewRequest(method, url) ==
    [Method |-> method, URL |-> url, Headers |-> NoMap, Body |-> <<>>]

\* A Post that sets the header whatever the argument.
HasContentTypeAlways(ct) == TRUE

\* if contentType != ""
HasContentType(ct) == ct # <<>>

\* Post and Put: NewRequest, SetHeader unless the argument is empty,
\* SetBody.
PostPut(method, url, ct, body) ==
    LET req == NewRequest(method, url)
        withCt == IF HasContentType(ct)
                  THEN [req EXCEPT !.Headers = MapSet(@, "Content-Type", ct)]
                  ELSE req
    IN  [withCt EXCEPT !.Body = body]

RECURSIVE StripLeft(_)
StripLeft(v) == IF v # <<>> /\ Head(v) = " " THEN StripLeft(Tail(v)) ELSE v

RECURSIVE StripRight(_)
StripRight(v) ==
    IF v # <<>> /\ v[Len(v)] = " " THEN StripRight(Take(v, Len(v) - 1)) ELSE v

\* What the host keeps of a value passed to Headers.append: the value
\* without its leading and trailing whitespace.
HostValue(v) == StripRight(StripLeft(v))

\* The name the host files a header under: byte-lowercased.
HostName(k) == IF k = "Content-Type" THEN "content-type" ELSE k

\* jsHeaders.Call("append", key, value) for every entry of r.Headers (one
\* value per key, so no two entries meet).
HostHeaders(h) ==
    [n \in {HostName(k) : k \in DOMAIN h} |->
        HostValue(h[CHOOSE k \in DOMAIN h : HostName(k) = n])]

\* The options Do builds: headers only if len(r.Headers) > 0, body only if
\* len(r.Body) > 0.
FetchOptions(req) ==
    [method  |-> req.Method,
     headers |-> IF Cardinality(DOMAIN req.Headers) > 0
                 THEN <<HostHeaders(req.Headers)>> ELSE <<>>,
     body    |-> IF Len(req.Body) > 0 THEN <<req.Body>> ELSE <<>>]

\* Post or Put is called with some content type and body.
ObInit ==
    /\ ob_pc = "call"
    /\ ob_in \in [method : {"POST", "PUT"}, ct : CtArgs, body : BodyArgs]
    /\ ob_req = <<>>
    /\ ob_opts = <<>>

\* A run that is about another component: neither is called.
ObQuiet ==
    /\ ob_pc = "none"
    /\ ob_in = <<>>
    /\ ob_req = <<>>
    /\ ob_opts = <<>>

\* Post or Put up to req.Do().
ObBuild ==
    /\ ob_pc = "call"
    /\ ob_pc' = "built"
    /\ ob_req' = PostPut(ob_in.method, "url", ob_in.ct, ob_in.body)
    /\ UNCHANGED <<ob_in, ob_opts>>
    /\ UNCHANGED <<readerVars, wsVars, serveVars, producerVars, raVars>>

\* Do up to the call of fetch.
ObOptions ==
    /\ ob_pc = "built"
    /\ ob_pc' = "sent"
    /\ ob_opts' = FetchOptions(ob_req)
    /\ UNCHANGED <<ob_in, ob_req>>
    /\ UNCHANGED <<readerVars, wsVars, serveVars, producerVars, raVars>>

\* ------------------------------------------------ Response.ReadAll (httpjs)
ReadAllBuf == 4096  \* len(buffer) in ReadAll

\* The byte values a body carries.
RaBytes == {"a", "b"}

\* What one Read(p) of an io.Reader can return: up to len(p) bytes, with
\* nil, io.EOF or another error.
RaReadResults(plen) ==
    {[data |-> d, err |-> e] :
        d \in UNION {[1..n -> RaBytes] : n \in 0..Min(MaxReadN, plen)},
        e \in {Nil, EOF, ErrRead}}

RaIdle ==
    /\ ra_buf = <<>>
    /\ ra_reads = 0
    /\ ra_plen = 0
    /\ ra_last = <<>>
    /\ ra_delivered = <<>>
    /\ ra_ret = <<>>

\* ReadAll is called on a response with or without a body.
RaInit ==
    /\ ra_hasBody \in BOOLEAN
    /\ ra_pc = "loop"
    /\ RaIdle

\* A run that is about another component: ReadAll is not called.
RaQuiet ==
    /\ ra_hasBody = FALSE
    /\ ra_pc = "none"
    /\ RaIdle

\* A ReadAll that returns nil for a response without a body.
NoBodyResultNil == [data |-> <<>>, isNil |-> TRUE, err |-> Nil]

\* return []byte{}, nil
NoBodyResult == [data |-> <<>>, isNil |-> FALSE, err |-> Nil]

\* if resp.bodyReader == nil: no Read is made.
RaNoBody ==
    /\ ra_pc = "loop"
    /\ ~ra_hasBody
    /\ ra_pc' = "done"
    /\ ra_ret' = NoBodyResult
    /\ UNCHANGED <<ra_hasBody, ra_buf, ra_reads, ra_plen, ra_last,
                   ra_delivered>>
    /\ UNCHANGED <<readerVars, wsVars, serveVars, producerVars, obVars>>

\* A loop that looks at the error before the bytes.
AccumulateUnlessErr(buf, r) == IF r.err = Nil THEN buf \o r.data ELSE buf

\* if n > 0 { buf.Write(buffer[:n]) }, whatever err is.
Accumulate(buf, r) == IF Len(r.data) > 0 THEN buf \o r.data ELSE buf

\* One turn of the loop: Read into the 4096-byte buffer, keep the bytes,
\* then break on io.EOF and return buf.Bytes() (nil when nothing was ever
\* written), return nil and the error on another error, go on otherwise.
RaRead ==
    /\ ra_pc = "loop"
    /\ ra_hasBody
    /\ ra_reads < MaxRaReads
    /\ \E r \in RaReadResults(ReadAllBuf) :
          /\ ra_reads' = ra_reads + 1
          /\ ra_plen' = ReadAllBuf
          /\ ra_last' = r
          /\ ra_delivered' = ra_delivered \o r.data
          /\ ra_buf' = Accumulate(ra_buf, r)
          /\ IF r.err = EOF
             THEN /\ ra_pc' = "done"
                  /\ ra_ret' = [data |-> ra_buf', isNil |-> ra_buf' = <<>>,
                                err |-> Nil]
             ELSE IF r.err # Nil
             THEN /\ ra_pc' = "done"
                  /\ ra_ret' = [data |-> <<>>, isNil |-> TRUE, err |-> r.err]
             ELSE UNCHANGED <<ra_pc, ra_ret>>
    /\ UNCHANGED ra_hasBody
    /\ UNCHANGED <<readerVars, wsVars, serveVars, producerVars, obVars>>

\* ----------------------------------------------------------- specifications
\* ------------------------------------------------------- specifications
\* In a run about one component the others have not been constructed.
ReaderQuiet ==
    /\ hostChunks = <<>>
    /\ hostAll = <<>>
    /\ ReaderIdle
    /\ do_pc = "none"
    /\ fetchPromise = "none"
    /\ do_funcs = {}
    /\ do_ch = <<>>
    /\ do_ret = <<>>

ReaderNext ==
    \/ FetchThen
    \/ FetchCatch
    \/ DoReturn
    \/ \E len \in 1..MaxBuf : ReadCall(len)
    \/ \E len \in 1..MaxBuf : ReadClosed(len)
    \/ ReadThen
    \/ ReadReject
    \/ ReadReturn
    \/ ReaderClose

ReaderSpecInit ==
    ReaderInit /\ WsQuiet /\ ServeQuiet /\ ProducerQuiet /\ RaQuiet
    /\ ObQuiet

ReaderSpec == ReaderSpecInit /\ [][ReaderNext]_vars

\* The host settles the promises it made, and the Go scheduler runs a
\* worker whose receive is ready; nobody is bound to call Read or Close, and
\* the host stream is not bound to fail.
ReaderFairSpec ==
    /\ ReaderSpec
    /\ WF_vars(FetchThen \/ FetchCatch)
    /\ WF_vars(DoReturn)
    /\ WF_vars(ReadThen)
    /\ WF_vars(ReadReturn)

WsNext ==
    \/ EvOpen
    \/ EvError
    \/ EvMessage
    \/ EvClose
    \/ HandlerResume
    \/ DialReturn
    \/ NextMessage
    \/ ConnCloseCall
    \/ ConnCloseReturn
    \/ WsReadEnter
    \/ \E len \in 1..MaxBuf : WsReadBuffered(len)
    \/ \E len \in 1..MaxBuf : WsReadMessage(len)
    \/ WsWriteEnter
    \/ \E len \in 0..MaxWriteBuf : WsWriteSend(len)

WsSpecInit ==
    ReaderQuiet /\ WsInit /\ ServeQuiet /\ ProducerQuiet /\ RaQuiet
    /\ ObQuiet

WsSpec == WsSpecInit /\ [][WsNext]_vars

\* A connection used through Conn alone.
ConnNext ==
    \/ EvOpen
    \/ EvError
    \/ EvMessage
    \/ EvClose
    \/ HandlerResume
    \/ DialReturn
    \/ NextMessage
    \/ ConnCloseCall
    \/ ConnCloseReturn

ConnSpecInit == WsSpecInit /\ ~ws_wrapped

\* The Go scheduler runs a worker whose receive is ready.  The host is not
\* bound to deliver any event, and nobody is bound to call anything.
ConnFairSpec ==
    /\ ConnSpecInit
    /\ [][ConnNext]_vars
    /\ WF_vars(DialReturn)
    /\ WF_vars(ConnCloseReturn)

ProducerNext ==
    \/ PsPull
    \/ PsPullFinish
    \/ PsCancel
    \/ PsClose

ProducerSpecInit ==
    ReaderQuiet /\ WsQuiet /\ ServeQuiet /\ ProducerInit /\ RaQuiet
    /\ ObQuiet

ProducerSpec == ProducerSpecInit /\ [][ProducerNext]_vars

ReadAllNext ==
    \/ RaNoBody
    \/ RaRead

ReadAllSpecInit ==
    /\ ReaderQuiet /\ WsQuiet /\ ServeQuiet /\ ProducerQuiet /\ RaInit
    /\ ObQuiet

ReadAllSpec == ReadAllSpecInit /\ [][ReadAllNext]_vars

PostPutNext ==
    \/ ObBuild
    \/ ObOptions

PostPutSpecInit ==
    /\ ReaderQuiet /\ WsQuiet /\ ServeQuiet /\ ProducerQuiet /\ RaQuiet
    /\ ObInit

PostPutSpec == PostPutSpecInit /\ [][PostPutNext]_vars

\* One adapter of any kind: a response's reader, a socket connection or a
\* producer stream.
AdaptersSpecInit ==
    /\ ServeQuiet
    /\ RaQuiet
    /\ ObQuiet
    /\ \/ ReaderInit /\ WsQuiet /\ ProducerQuiet
       \/ ReaderQuiet /\ WsInit /\ ProducerQuiet
       \/ ReaderQuiet /\ WsQuiet /\ ProducerInit

AdaptersNext == ReaderNext \/ WsNext \/ ProducerNext

AdaptersSpec == AdaptersSpecInit /\ [][AdaptersNext]_vars

HandlerNext ==
    \/ \E k \in HandlerKeys, v \in HandlerValues : HSetHeader(k, v)
    \/ \E s \in HandlerStatuses : HWriteHeader(s)
    \/ \E n \in 1..MaxWriteLen : HWrite(n)
    \/ HWriteReturn
    \/ HPanic
    \/ HReturn
    \/ HHttpError
    \/ HErrWriteReturn
    \/ HErrClose

ResponderNext ==
    \/ SvStart
    \/ SvBuild
    \/ SvHeaders
    \/ SvResolve

HostNext ==
    \/ \E ok \in BOOLEAN : BodySettle(ok)
    \/ HostPull
    \/ PullFinish
    \/ HostCancel

Init ==
    ReaderQuiet /\ WsQuiet /\ ServeInit /\ ProducerQuiet /\ RaQuiet /\ ObQuiet

Next == HandlerNext \/ ResponderNext \/ HostNext

Spec == Init /\ [][Next]_vars

\* The Go scheduler runs a worker that can run, and the host runs a pull
\* worker's continuation; the host is not bound to pull or to cancel.
FairSpec ==
    /\ Spec
    /\ WF_vars(HandlerNext)
    /\ WF_vars(ResponderNext)
    /\ WF_vars(PullFinish)
    /\ WF_vars(\E ok \in BOOLEAN : BodySettle(ok))
\* ---------------------------------------------------------------- claims
Range(f) == {f[i] : i \in DOMAIN f}

Resolved == promise.state = "resolved"

\* C1: the bytes successive Reads return up to EndOfData are the host's
\* chunks concatenated in order, none lost and none twice, also when a
\* chunk is longer than the caller's buffer.
C1_ReadReproducesChunks ==
    (rd_pc = "idle" /\ ~rd_closed /\ rd_ret # <<>> /\ rd_ret.err = EOF)
        => rd_out = hostAll

\* C2: no handler the bridge registered with the host blocks the host's
\* loop, however many messages arrive while nothing reads the queue.
C2_HostNeverBlocked == hostBlocked = "none"

\* C3: NextMessage returns the Closed error only when the queue is empty:
\* with the close event fired and messages still queued it returns a
\* message.
C3_ClosedOnlyWhenDrained ==
    (nm_ret # <<>> /\ nm_ret.err = ErrClosed) => nm_ret.left = 0

\* C4: a handler that faults before any header is committed leads to the
\* promise resolving with status 500.
C4_FaultBeforeCommitResolves500 ==
    (hs_fault = "before")
        ~> (Resolved /\ promise.status = StatusInternalServerError)

\* C5: a handler that returns without committing headers gets the commit
\* forced by the bridge: the commit and the resolved response carry status
\* 502, the promise is resolved and never rejected, and the stream delivers
\* the text of http.Error, containing "Bad Gateway", and is closed as a
\* normal end, never errored.
C5_Safety ==
    hs_forced =>
        /\ hs_commit.status = StatusBadGateway
        /\ hs_commit.kind = "forced"
        /\ promise.state # "rejected"
        /\ Resolved => promise.status = StatusBadGateway
        /\ IsPrefix(Concat(st_chunks), ErrorBody)
        /\ st_state # "errored"
        /\ st_state = "closed" =>
              /\ Concat(st_chunks) = ErrorBody
              /\ "Bad Gateway" \in Range(Concat(st_chunks))

C5_ForcedBadGateway ==
    /\ []C5_Safety
    /\ hs_forced ~> (Resolved /\ promise.status = StatusBadGateway)

C5_Witness ==
    /\ hs_forced
    /\ Resolved
    /\ promise.status = StatusBadGateway
    /\ st_state = "closed"
    /\ Concat(st_chunks) = ErrorBody

\* C6: for a handler that does not fault, the resolved response has the
\* status of the first WriteHeader, which is 200 when a Write came first;
\* the stream yields the written bytes in order, all of them once it is
\* closed; and no body byte is handed to the pipe before the commit.
C6_StatusThenBody ==
    /\ (Resolved /\ hs_fault = "no") => promise.status = hs_commit.status
    /\ (hs_commit # <<>> /\ hs_commit.kind = "implicit")
          => hs_commit.status = StatusOK
    /\ IsPrefix(Concat(st_chunks), hs_written)
    /\ st_state = "closed" => Concat(st_chunks) = hs_written
    /\ (hs_written # <<>> \/ pipe_buf # <<>>)
          => (wroteHeader /\ wroteHeaderChan = "closed" /\ hs_commits = 1)

C6_Witness ==
    /\ hs_fault = "no"
    /\ hs_commit # <<>>
    /\ hs_commit.kind = "explicit"
    /\ hs_commit.status = 201
    /\ hd_ops = 3
    /\ Resolved
    /\ promise.status = 201
    /\ st_state = "closed"
    /\ Len(hs_written) = 2
    /\ Concat(st_chunks) = hs_written

\* C7: whatever the handler does, once its worker has ended exactly one
\* header commit has happened.
C7_ExactlyOneCommit == hd_pc = "done" => hs_commits = 1

\* C8: the response handed to the host carries, for the keys the handler
\* sets, the header collection as it was at the commit.
C8_LateHeaderInvisible ==
    Resolved =>
        \A k \in HandlerKeys :
            /\ k \in DOMAIN promise.headers <=> k \in DOMAIN hs_commit.header
            /\ k \in DOMAIN promise.headers
                  => promise.headers[k] = hs_commit.header[k]

\* C9: a fault after the commit leaves the delivered status the committed
\* one.
C9_FaultKeepsStatus ==
    (Resolved /\ hs_fault = "after") => promise.status = hs_commit.status

\* C10: once the handler has faulted the pipe is closed with the error of
\* the recovery, not as a normal end: the stream is never closed, and a
\* pull that finishes then is rejected and errors a readable stream.
C10_FaultErrorsStream ==
    [][hs_fault' # "no" =>
          /\ pipe_werr' = ErrInternal
          /\ st_state' # "closed"
          /\ (hs_fault # "no" /\ pull_pc = "reading" /\ pull_pc' = "none") =>
                /\ hs_lastPull' = "error"
                /\ pullPromise' = "rejected"
                /\ st_state = "readable" => st_state' = "errored"]_vars

C10_Witness ==
    /\ hs_fault = "after"
    /\ hs_lastPull = "error"
    /\ st_state = "errored"
    /\ Concat(st_chunks) = hs_written
    /\ hs_written # <<>>

\* C11: once headers are committed the promise resolves, whether or not
\* the handler has returned and with no body byte consumed before it; the
\* bytes the handler writes after the promise resolved reach the stream in
\* the order written.
C11_Safety ==
    /\ Resolved => (hs_commits = 1 /\ hs_atResolve >= 0)
    /\ (sv_pc \in {"headers", "resolve"}) => st_chunks = <<>>
    /\ IsPrefix(Concat(st_chunks), hs_written)
    /\ (Resolved /\ st_state = "closed") => Concat(st_chunks) = hs_written

C11_ResolvesAtCommit ==
    /\ []C11_Safety
    /\ (hs_commits = 1) ~> Resolved
    /\ (hs_commits = 1 /\ hd_pc = "write" /\ ~Resolved)
          ~> (Resolved /\ hd_pc = "write" /\ st_chunks = <<>>)

C11_Witness ==
    /\ Resolved
    /\ hs_atResolve = 0
    /\ hs_fault = "no"
    /\ Len(hs_written) = 2
    /\ Concat(st_chunks) = hs_written
    /\ st_state = "closed"

\* C12: messages come out of the queue in the order they were pushed, none
\* skipped and none twice: the k-th message taken, by NextMessage or by the
\* NextMessage inside WsStream.Read, is the k-th message pushed; the queue
\* holds the following ones in order; and the bytes Read returns, also of
\* a message split over several Reads, never go back to an earlier message
\* or an earlier byte.
C12_MessagesInOrder ==
    /\ (nm_ret # <<>> /\ nm_ret.err = Nil) => nm_ret.msg = nm_count
    /\ messageChan = [i \in 1..Len(messageChan) |-> nm_count + i]
    /\ \A i \in 1..Len(ws_out) : \A j \in 1..Len(ws_out) :
          i < j => \/ ws_out[i][1] < ws_out[j][1]
                   \/ /\ ws_out[i][1] = ws_out[j][1]
                      /\ ws_out[i][2] < ws_out[j][2]

C12_Witness ==
    /\ ws_wrapped
    /\ peerLens = <<3, 2>>
    /\ nm_count = 2
    /\ Len(ws_out) = 5
    /\ currentBuffer = <<>>

\* The payloads of the first k messages, concatenated.
Flattened(k) == Concat([i \in 1..k |-> Payload(i)])

\* C13: the bytes Read has returned, followed by the remainder it carries
\* over, are the payloads of the messages taken so far concatenated in
\* arrival order; and a Read that finds a remainder returns bytes of it and
\* takes no message.
C13_Flattened ==
    /\ [](ws_wrapped => ws_out \o currentBuffer = Flattened(nm_count))
    /\ [][(currentBuffer # <<>> /\ ws_out' # ws_out) =>
            /\ nm_count' = nm_count
            /\ messageChan' = messageChan
            /\ ws_out' \o currentBuffer' = ws_out \o currentBuffer
            /\ Len(currentBuffer') < Len(currentBuffer)]_vars

C13_Witness ==
    /\ ws_wrapped
    /\ peerLens = <<3, 0>>
    /\ nm_count = 2
    /\ ws_out = Flattened(2)
    /\ Len(ws_out) = 3
    /\ currentBuffer = <<>>

\* The lengths of the chunks enqueued.
ChunkLens == [i \in DOMAIN ps_chunks |-> ps_chunks[i].len]

\* C14: over a reader that yields N bytes and then EndOfData, and that
\* nobody closed, every chunk enqueued has at most 4096 bytes and starts
\* where the one before ended, and once the stream is closed the chunks
\* sum to N, also when the last bytes came together with the end-of-data
\* signal.
C14_ChunksSumToN ==
    /\ \A i \in DOMAIN ps_chunks :
          /\ ps_chunks[i].len \in 1..ScratchSize
          /\ ps_chunks[i].off = Sum(ChunkLens, i - 1)
    /\ (ps_state = "closed" /\ ps_rcloses = 0)
          => Sum(ChunkLens, Len(ps_chunks)) = ps_total

\* The producer's terminal events: end of data, error, host cancel, Close.
PsTerminal ==
    \/ ps_state \in {"closed", "errored", "cancelled"}
    \/ ps_closeCalls > 0

\* C15: after the terminal event of a producer stream, and after the close
\* event of a socket whose Dial has returned, the owner's handles have been
\* released, and released once.
C15_ReleasedOnceAtEnd ==
    /\ PsTerminal => (ps_funcs = {} /\ ps_relCalls = 1)
    /\ (closeChan = "closed" /\ dial_pc = "returned") => ws_released = 1

\* C18: the underlying reader is never closed twice, and it has been closed
\* once the host has cancelled or the owner has called Close, whichever
\* came first and however often Close is called.
C18_ReaderClosedOnce ==
    /\ ps_rcloses <= 1
    /\ (ps_cancels > 0 \/ ps_closeCalls > 0) => ps_rcloses = 1

C18_Witness ==
    /\ ps_cancels = 1
    /\ ps_closeCalls = 2
    /\ ps_rcloses = 1

\* C20: at most one Read of the underlying reader is in flight, and only
\* while the pull promise is pending; a pull that runs onPull finds no
\* read in flight and the last promise settled, and starts exactly one
\* read; no read starts without a pull.
C20_OneReadInFlight ==
    /\ [](/\ ps_reading <= 1
          /\ ps_reading = 1 => ps_promise = "pending"
          /\ ps_reads <= ps_pulls)
    /\ [][(ps_pulls' # ps_pulls /\ "onPull" \in ps_funcs) =>
            /\ ps_promise # "pending"
            /\ ps_reading = 0
            /\ ps_reading' = 1
            /\ ps_reads' = ps_reads + 1]_vars
    /\ [][ps_reads' # ps_reads => ps_pulls' = ps_pulls + 1]_vars

C20_Witness ==
    /\ ps_pulls = 3
    /\ ps_reads = 3
    /\ ps_reading = 0
    /\ Len(ps_chunks) = 2
    /\ ps_state = "closed"

\* C16: once the operation that registered them has returned, no one-shot
\* continuation is left unreleased: thenFunc and catchFunc of Do, thenFunc
\* of the reader's Read, and the executor of a pull promise.
C16_ContinuationsReleased ==
    /\ do_pc = "returned" => do_funcs = {}
    /\ rd_pc = "idle" => rd_funcs = 0
    /\ ps_reading = 0 => ps_execs = 0

\* C17: a rejected read promise leads to the blocked Read returning an
\* error, and a settled read promise of either kind leads to the Read
\* returning.
C17_RejectedReadReturns ==
    /\ (readPromise = "rejected")
          ~> (rd_pc = "idle" /\ rd_ret # <<>> /\ rd_ret.err \notin {Nil, EOF})
    /\ (rd_pc = "blocked" /\ readPromise # "pending") ~> (rd_pc = "idle")

\* C19: a Close after the first one changes nothing but the count of
\* calls, on a push-to-pull reader, on a producer stream (which is what
\* closing a response closes) and on a socket connection, where it also
\* finds closeChan closed and so does not block.
C19_CloseIdempotent ==
    /\ [][(rd_closeCalls' # rd_closeCalls /\ rd_closeCalls >= 1) =>
            UNCHANGED <<hostChunks, hostErrored, hostCancels, hostReads,
                        readPromise, rd_closed, rd_pc, rd_p, resultCh,
                        rd_funcs, rd_out, rd_ret, hostAll, doVars>>]_vars
    /\ [][(ps_closeCalls' # ps_closeCalls /\ ps_closeCalls >= 1) =>
            UNCHANGED <<ps_total, ps_off, ps_rcloses, ps_state, ps_chunks,
                        ps_reading, ps_promise, ps_pulls, ps_reads, ps_funcs,
                        ps_execs, ps_cancels, ps_crashed>>]_vars
    /\ [][(close_pc' # close_pc /\ ws_released >= 1) =>
            /\ closeChan = "closed"
            /\ ws_released' >= 1
            /\ UNCHANGED <<ws_ready, ws_errored, errCh, dial_pc, dial_err,
                           dial_ret, messageChan, closeChan, hostBlocked,
                           blockedVal, msgSeq, nm_ret, nm_count, peerLens,
                           currentBuffer, ws_out, ws_wrapped>>]_vars

C19_Witness ==
    /\ Dialed
    /\ ws_released = 2
    /\ close_pc = "idle"
    /\ closeChan = "closed"
    /\ ws_ready = "closed"

\* C21: for one Do exactly one of thenFunc and catchFunc fires once the
\* fetch promise is settled, and none before; Do returns only after that,
\* a response and no error when the promise was fulfilled, an error and no
\* response when it was rejected, and what it returned never changes; a
\* settled promise leads to Do returning.
C21_Safety ==
    /\ fetchPromise = "pending" => (Cardinality(do_funcs) = 2 /\ do_pc = "blocked")
    /\ fetchPromise = "fulfilled" => do_funcs = {"catchFunc"}
    /\ fetchPromise = "rejected" => do_funcs = {"thenFunc"}
    /\ do_pc = "returned" =>
          /\ fetchPromise \in {"fulfilled", "rejected"}
          /\ do_ret.ok <=> fetchPromise = "fulfilled"
          /\ do_ret.ok <=> do_ret.err = Nil

C21_OneOutcome ==
    /\ []C21_Safety
    /\ [][do_pc = "returned" => do_ret' = do_ret]_vars
    /\ (fetchPromise \in {"fulfilled", "rejected"}) ~> (do_pc = "returned")

C21_Witness ==
    /\ do_pc = "returned"
    /\ fetchPromise = "rejected"
    /\ ~do_ret.ok
    /\ do_ret.err = ErrRequestFailed

\* C22: on a closed reader a Read returns 0 and EndOfData, issues no host
\* read and hands out no byte; no Read is left blocked by a Close; and the
\* host reader's cancel is requested once by the first Close and by no
\* later one.
C22_ClosedReads ==
    /\ [](/\ hostCancels <= 1
          /\ rd_closed <=> rd_closeCalls >= 1
          /\ rd_closed => (hostCancels = 1 /\ rd_pc = "idle"))
    /\ [][rd_closed =>
            /\ hostReads' = hostReads
            /\ rd_out' = rd_out
            /\ rd_funcs' = rd_funcs
            /\ rd_ret' # rd_ret => rd_ret' = [n |-> 0, err |-> EOF]]_vars

C22_Witness ==
    /\ rd_closed
    /\ rd_closeCalls = 2
    /\ hostCancels = 1
    /\ rd_ret = [n |-> 0, err |-> EOF]
    /\ rd_out # hostAll

\* C23: Dial stays blocked while neither open nor error has fired; the
\* first of the two wakes it, with nil for open and the dial-failure error
\* for error; what it received, and what it returned, is changed by no
\* later event; it returns a connection exactly when it received nil and
\* the dial-failure error otherwise, and it returns once woken; the
\* handlers of a dialed connection are released by nothing before its
\* close event.
C23_Safety ==
    /\ dial_pc = "blocked" =>
          (ws_ready = "connecting" /\ ~ws_errored /\ dial_ret = <<>>)
    /\ dial_pc = "woken" => dial_ret = <<>>
    /\ dial_pc = "returned" =>
          /\ dial_ret.conn <=> dial_err = Nil
          /\ dial_ret.err = dial_err
          /\ dial_err \in {Nil, ErrFailedToDial}
    /\ (Dialed /\ closeChan = "open") => ws_released = 0

C23_DialResult ==
    /\ []C23_Safety
    /\ [][(dial_pc = "blocked" /\ ws_ready' = "open") =>
            (dial_pc' = "woken" /\ dial_err' = Nil)]_vars
    /\ [][(dial_pc = "blocked" /\ ws_errored') =>
            (dial_pc' = "woken" /\ dial_err' = ErrFailedToDial)]_vars
    /\ [][dial_pc # "blocked" => dial_err' = dial_err]_vars
    /\ [][dial_pc = "returned" => dial_ret' = dial_ret]_vars
    /\ (dial_pc = "woken") ~> (dial_pc = "returned")

\* Open first and error later: the connection stands.
C23_Witness ==
    /\ Dialed
    /\ ws_errored
    /\ errCh = <<ErrFailedToDial>>
    /\ ws_released = 0
    /\ closeChan = "open"

\* C24: Conn.Close asks the host to close the socket; it leaves its
\* receive only when the close event has fired, and no handle of a dialed
\* connection is released before that; once the close event has fired a
\* blocked Close returns, and then the handles are released.
C24_Safety ==
    /\ (Dialed /\ ws_released > 0) => closeChan = "closed"
    /\ close_pc = "blocked" => ws_ready \in {"closing", "closed"}
    /\ Dialed => ((closeChan = "closed") <=> (ws_ready = "closed"))

C24_CloseWaits ==
    /\ []C24_Safety
    /\ [][(close_pc = "blocked" /\ close_pc' = "idle") =>
            (closeChan = "closed" /\ ws_released' = ws_released + 1)]_vars
    /\ [][ws_released' # ws_released => close_pc' # close_pc \/ ~Dialed']_vars
    /\ (close_pc = "blocked" /\ closeChan = "closed")
          ~> (close_pc = "idle" /\ ws_released >= 1)

\* Close was called on an open connection and has returned.
C24_Witness ==
    /\ Dialed
    /\ ~ws_errored
    /\ close_pc = "idle"
    /\ ws_released = 1
    /\ closeChan = "closed"

\* Read is blocked waiting for a message.
ReadBlocked ==
    /\ ws_readers > 0
    /\ currentBuffer = <<>>
    /\ messageChan = <<>>
    /\ closeChan = "open"

\* C25: at most one caller is inside Read and at most one inside Write;
\* a Write can start whenever no Write is in progress and can finish once
\* started, a Read blocked for a message or not; a Read can start whenever
\* no Read is in progress, and finish when it has bytes or a message, a
\* Write in progress or not.
C25_ReadWriteExclusion ==
    /\ ws_readers <= 1
    /\ ws_writers <= 1
    /\ (Dialed /\ ws_wrapped /\ ws_writers = 0) => ENABLED WsWriteEnter
    /\ ws_writers > 0 => ENABLED (\E len \in 0..MaxWriteBuf : WsWriteSend(len))
    /\ (Dialed /\ ws_wrapped /\ ws_readers = 0) => ENABLED WsReadEnter
    /\ (ws_readers > 0 /\ currentBuffer # <<>>)
          => ENABLED (\E len \in 1..MaxBuf : WsReadBuffered(len))
    /\ (ws_readers > 0 /\ currentBuffer = <<>> /\ closeChan = "closed")
          => ENABLED (\E len \in 1..MaxBuf : WsReadMessage(len))

\* A Write is in progress while a Read is blocked waiting for a message.
C25_Witness ==
    /\ ReadBlocked
    /\ ws_writers = 1
    /\ ws_wret # <<>>

\* C28: every Write either has the host transmit its whole buffer as one
\* frame and returns len(p) and nil, or has nothing transmitted and
\* returns 0 and an error.
C28_WriteAllOrNothing ==
    ws_wret # <<>> =>
        \/ /\ ws_wret.err = Nil
           /\ ws_wret.n = Len(ws_wret.p)
           /\ ws_wret.frame = <<ws_wret.p>>
        \/ /\ ws_wret.err # Nil
           /\ ws_wret.n = 0
           /\ ws_wret.frame = <<>>

\* The conversion of the inbound request fails.
ConversionFails == rq_body = "rejected" \/ rq_malformed

\* C26: for a request whose body promise is rejected or whose header block
\* or request line is refused, the handler never starts, the writer is
\* never touched and the promise is never resolved; and the promise ends
\* rejected.
C26_Safety ==
    ConversionFails =>
        /\ hd_pc = "none"
        /\ hd_ops = 0
        /\ hs_commits = 0
        /\ wroteHeaderChan = "open"
        /\ promise.state \in {"pending", "rejected"}

C26_ConversionFailure ==
    /\ []C26_Safety
    /\ ConversionFails ~> (promise.state = "rejected" /\ sv_pc = "done")
    /\ [][promise.state = "rejected" => promise' = promise]_vars

C26_Witness ==
    /\ rq_body = "fulfilled"
    /\ rq_malformed
    /\ promise.state = "rejected"
    /\ hd_pc = "none"

\* C27: the handler's worker is started only once the body promise is
\* fulfilled (or the request has no body): while it is pending the worker
\* stays inside the conversion, and the body does not change under a
\* handler that has started.
C27_HandlerAfterBody ==
    /\ [](rq_body = "pending" => (hd_pc = "none" /\ sv_pc = "start"))
    /\ [](hd_pc # "none" => rq_body \in {"none", "fulfilled"})
    /\ [][hd_pc # "none" => rq_body' = rq_body]_vars

C27_Witness ==
    /\ rq_body = "fulfilled"
    /\ hd_pc = "done"
    /\ hs_written # <<>>
    /\ Resolved

\* C29: ReadAll passes a buffer of 4096 bytes to every Read and goes on
\* after every Read that returns no error, also one of zero bytes, with
\* all the delivered bytes kept in order; when the reader reports
\* EndOfData it returns every byte the reader delivered, the ones that
\* came with the EndOfData included, in order and with no error; on
\* another error it returns that error and no data.
C29_ReadAllConcatenates ==
    /\ ra_reads > 0 => (ra_plen = ReadAllBuf /\ Len(ra_last.data) <= ra_plen)
    /\ (ra_pc = "loop" /\ ra_reads > 0) =>
          (ra_last.err = Nil /\ ra_buf = ra_delivered /\ ra_ret = <<>>)
    /\ (ra_pc = "done" /\ ra_hasBody) =>
          /\ ra_last.err # Nil
          /\ IF ra_last.err = EOF
             THEN ra_ret.err = Nil /\ ra_ret.data = ra_delivered
             ELSE /\ ra_ret.err = ra_last.err
                  /\ ra_ret.data = <<>>
                  /\ ra_ret.isNil

\* Two empty reads, then a byte that comes with EndOfData.
C29_Witness ==
    /\ ra_pc = "done"
    /\ ra_reads = 3
    /\ ra_last = [data |-> <<"b">>, err |-> EOF]
    /\ ra_ret = [data |-> <<"b">>, isNil |-> FALSE, err |-> Nil]

\* C30: ReadAll on a response without a body returns a buffer of length
\* zero that is not nil, and no error, and has made no Read.
C30_NoBody ==
    (ra_pc = "done" /\ ~ra_hasBody) =>
        /\ ra_ret.data = <<>>
        /\ ~ra_ret.isNil
        /\ ra_ret.err = Nil
        /\ ra_reads = 0
        /\ ra_delivered = <<>>

C30_Witness ==
    /\ ra_pc = "done"
    /\ ~ra_hasBody
    /\ ra_ret # <<>>

\* C31: the request Post or Put builds has no Content-Type key when the
\* content-type argument is empty, and no header at all is handed to the
\* host; with a non-empty argument its only header is Content-Type with
\* exactly the argument as value, and the host is handed that one header,
\* with the same value when the argument has no whitespace around it.
C31_ContentType ==
    /\ ob_pc \in {"built", "sent"} =>
          /\ ob_req.Method = ob_in.method
          /\ ob_req.Body = ob_in.body
          /\ IF ob_in.ct = <<>>
             THEN DOMAIN ob_req.Headers = {}
             ELSE /\ DOMAIN ob_req.Headers = {"Content-Type"}
                  /\ ob_req.Headers["Content-Type"] = ob_in.ct
    /\ ob_pc = "sent" =>
          IF ob_in.ct = <<>>
          THEN ob_opts.headers = <<>>
          ELSE /\ Len(ob_opts.headers) = 1
               /\ DOMAIN ob_opts.headers[1] = {"content-type"}
               /\ (Head(ob_in.ct) # " " /\ ob_in.ct[Len(ob_in.ct)] # " ")
                     => ob_opts.headers[1]["content-type"] = ob_in.ct

C31_Witness ==
    /\ ob_pc = "sent"
    /\ ob_in.method = "PUT"
    /\ ob_in.ct = <<>>
    /\ ob_in.body # <<>>
    /\ ob_opts.headers = <<>>
    /\ ob_opts.body # <<>>

\* The host fulfils the pending read.
HostReadSettles == readPromise = "pending" /\ readPromise' = "none"

\* C32: a host result with done=true makes the blocked Read return 0 and
\* EndOfData, and after a Read has returned EndOfData every later Read
\* returns EndOfData and no byte; a result with done=false and an empty
\* chunk makes it return 0 and no error, and the chunks behind it stay in
\* the stream for the next Reads.
C32_DoneAndEmptyChunk ==
    /\ [][(HostReadSettles /\ hostChunks = <<>>) =>
            resultCh' = <<[data |-> <<>>, err |-> EOF]>>]_vars
    /\ [][(HostReadSettles /\ hostChunks # <<>> /\ Head(hostChunks) = <<>>) =>
            /\ resultCh' = <<[data |-> <<>>, err |-> Nil]>>
            /\ hostChunks' = Tail(hostChunks)]_vars
    /\ [][(rd_pc = "blocked" /\ rd_pc' = "idle") =>
            /\ rd_ret' = [n |-> Len(Head(resultCh).data),
                          err |-> Head(resultCh).err]
            /\ rd_out' = rd_out \o Head(resultCh).data]_vars
    /\ [][(rd_ret # <<>> /\ rd_ret.err = EOF) =>
            (rd_ret' = rd_ret /\ rd_out' = rd_out)]_vars
    /\ []((rd_ret # <<>> /\ rd_ret.err = EOF /\ ~rd_closed /\ rd_pc = "idle")
            => hostChunks = <<>>)

\* A Read has returned 0 and no error for an empty chunk, and the next one
\* has returned the bytes of the chunk behind it.
C32_Witness ==
    /\ hostReads = 2
    /\ rd_pc = "idle"
    /\ Len(rd_out) = 2
    /\ rd_ret = [n |-> 2, err |-> Nil]
    /\ hostChunks = <<>>
    /\ hostAll = rd_out

\* A pull worker comes to its end.
PullEnds == ps_reading' < ps_reading

\* C33: every pull ends in one of three outcomes: the stream is closed;
\* the stream is errored (or was no longer readable) and the pull promise
\* is rejected; or one chunk holding exactly the bytes the read returned
\* is enqueued and the pull promise is resolved.
C33_ThreeOutcomes ==
    [][PullEnds =>
          \/ /\ ps_state' = "closed"
             /\ ps_chunks' = ps_chunks
          \/ /\ ps_promise' = "rejected"
             /\ ps_state' # "readable"
             /\ ps_chunks' = ps_chunks
          \/ /\ ps_promise' = "resolved"
             /\ ps_state' = ps_state
             /\ ps_off' > ps_off
             /\ ps_chunks' = Append(ps_chunks,
                                    [off |-> ps_off, len |-> ps_off' - ps_off])
      ]_vars

\* The host dispatches a socket event to the listeners registered in Dial.
SocketEventFires ==
    \/ ws_errored' # ws_errored
    \/ msgSeq' # msgSeq
    \/ ws_ready' # ws_ready /\ ws_ready' \in {"open", "closed"}

\* C34: the host invokes no released handle: no socket event is dispatched
\* once freeFuncs has run, and the host calls neither pull nor cancel of a
\* stream whose callbacks ReadableStream.Close has released.
C34_NoCallAfterRelease ==
    /\ [][SocketEventFires => ws_released = 0]_vars
    /\ [][ps_pulls' # ps_pulls => "onPull" \in ps_funcs]_vars
    /\ [][ps_cancels' # ps_cancels => "onCancel" \in ps_funcs]_vars

\* C35: once the reader of the byte pipe has been closed by a cancel of the
\* response stream, a handler Write issued afterwards returns 0 and an
\* error without waiting, a Write that waits with bytes unread returns an
\* error, no Write stays blocked, and the handler worker comes to its end.
C35_WriteFailsAfterCancel ==
    /\ [][(rs_closes > 0 /\ hd_pc = "run" /\ hs_written' # hs_written) =>
            /\ hd_pc' = "run"
            /\ hd_wret' = [n |-> 0, err |-> ErrClosedPipe]]_vars
    /\ [][(rs_closes > 0 /\ hd_pc = "write" /\ hd_pc' # "write"
              /\ pipe_buf # <<>>) =>
            /\ hd_wret'.err = ErrClosedPipe
            /\ hd_wret'.n = pipe_n]_vars
    /\ (rs_closes > 0 /\ hd_pc \in {"write", "errWrite"})
          ~> (hd_pc \notin {"write", "errWrite"})
    /\ (rs_closes > 0) ~> (hd_pc = "done")

\* The host took the first Write and cancelled; the second Write failed
\* and the handler has returned.
C35_Witness ==
    /\ st_state = "cancelled"
    /\ rs_closes = 1
    /\ Len(st_chunks) = 1
    /\ Len(hs_written) > Len(Concat(st_chunks))
    /\ hd_wret = [n |-> 0, err |-> ErrClosedPipe]
    /\ hd_pc = "done"

\* The handler committed headers itself and has returned without a fault.
NormalReturn == hd_pc = "done" /\ hs_fault = "no" /\ ~hs_forced

\* C36: once a handler has returned normally after committing headers, the
\* write end of the pipe is closed as a normal end and no Write waits; the
\* stream is never errored; while it is readable the host can pull, and a
\* pull that finishes then closes it with every written byte enqueued; and
\* a pull in flight leads to the stream closed, or cancelled by the host.
C36_Safety ==
    NormalReturn =>
        /\ wroteHeader
        /\ pipe_werr = EOF
        /\ pipe_buf = <<>>
        /\ st_state # "errored"
        /\ (st_state = "readable" /\ pull_pc = "none") => ENABLED HostPull
        /\ st_state = "closed" =>
              /\ hs_lastPull = "eof"
              /\ Concat(st_chunks) = hs_written

C36_NormalReturnClosesStream ==
    /\ []C36_Safety
    /\ [][(NormalReturn /\ st_state = "readable"
              /\ pull_pc = "reading" /\ pull_pc' = "none") =>
            /\ st_state' = "closed"
            /\ pullPromise' = "resolved"
            /\ Concat(st_chunks') = hs_written]_vars
    /\ (NormalReturn /\ pull_pc = "reading")
          ~> (st_state \in {"closed", "cancelled"})

\* The handler wrote, returned, and the host pulled to the end.
C36_Witness ==
    /\ NormalReturn
    /\ hs_commit.kind = "implicit"
    /\ Len(hs_written) = 2
    /\ Len(st_chunks) = 2
    /\ Concat(st_chunks) = hs_written
    /\ hs_lastPull = "eof"
    /\ st_state = "closed"

\* C37: an error event that finds Dial waiting makes it fail: Dial then
\* returns the dial-failure error and no connection, and at its return
\* freeFuncs has run once, so that none of the four handlers is live;
\* none is released while Dial has not returned; and the failed Dial does
\* return.
C37_Safety ==
    /\ dial_pc \in {"blocked", "woken"} =>
          LiveHandlers = {"onOpen", "onError", "onMessage", "onClose"}
    /\ (dial_pc = "returned" /\ dial_err = ErrFailedToDial) =>
          /\ dial_ret = [conn |-> FALSE, err |-> ErrFailedToDial]
          /\ ws_released = 1
          /\ LiveHandlers = {}

C37_FailedDialReleases ==
    /\ []C37_Safety
    /\ [][(dial_pc = "blocked" /\ ~ws_errored /\ ws_errored') =>
            (dial_pc' = "woken" /\ dial_err' = ErrFailedToDial)]_vars
    /\ [][(dial_pc = "woken" /\ dial_err = ErrFailedToDial
              /\ dial_pc' = "returned") =>
            (~dial_ret'.conn /\ LiveHandlers' = {})]_vars
    /\ (dial_pc = "woken" /\ dial_err = ErrFailedToDial)
          ~> (dial_pc = "returned" /\ ~Dialed /\ LiveHandlers = {})

\* The error event came first, Dial has failed, and the socket has closed.
C37_Witness ==
    /\ dial_pc = "returned"
    /\ dial_ret = [conn |-> FALSE, err |-> ErrFailedToDial]
    /\ ws_errored
    /\ ws_ready = "closed"
    /\ closeChan = "open"
    /\ LiveHandlers = {}
====
